---------------------------- MODULE Spec2Model ----------------------------
(***************************************************************************)
(* The rules engine of J_chess_gui (class Board of src/chess_arena.py): a  *)
(* chess position with its history, the legal-move generator, apply_uci,   *)
(* SAN rendering, FEN serialisation and game_result.                       *)
(*                                                                         *)
(* Texts (FEN, long-form moves, SAN, castling rights, the en-passant       *)
(* target) are sequences of one-character strings, so that formatting and  *)
(* parsing are modelled character by character.  Lists are sequences,      *)
(* Python's None is the string "None", board cells are one-character       *)
(* strings and board[r][c] is indexed from 0 as in the source.             *)
(***************************************************************************)
EXTENDS Integers, Sequences, FiniteSets, TLC

VARIABLES board, turn, castling, ep, halfmove, fullmove,
          move_history, pos_history, cap_white, cap_black,
          raised, returned

\* the position and the outcome of the last call on it
bvars == <<board, turn, castling, ep, halfmove, fullmove,
           move_history, pos_history, cap_white, cap_black,
           raised, returned>>

\* An engine client (class UCIEngine): its fields, the engine process and
\* its pipes, the clock, and the two threads that call it.
VARIABLES process, ready, q, last_info,
          os, trace, burst,
          now, end, wake, movetime_ms,
          pc, call, searches,
          stop_pc, stop_call

evars == <<process, ready, q, last_info, os, trace, burst,
           now, end, wake, movetime_ms, pc, call, searches,
           stop_pc, stop_call>>

\* The window (class ChessGUI of src/gui.py): the fields that decide who may
\* touch the Board, the Lock objects, and the threads that run its handlers.
VARIABLES board_lock, locked, holds,
          game_running, _engine_thinking, play_mode, player_color,
          after, loading, at, arg, seen, base, undisturbed, games

gvars == <<board_lock, locked, holds,
           game_running, _engine_thinking, play_mode, player_color,
           after, loading, at, arg, seen, base, undisturbed, games>>

\* The analysis of a position (AnalyzerEngine.eval_position): its argument,
\* its local variables and the lines its loop has taken from the queue; and
\* an info line, as the fields it is made of, with what _parse_info makes of
\* it.
VARIABLES moves_str, last_score, last_score_type, heard, fields, parsed

avars == <<moves_str, last_score, last_score_type, heard, fields, parsed>>

\* What a call hands to its caller while it runs: whether get_best_move was
\* given an on_info callback, and the dictionaries the callback has been
\* called with since the search last begun.  And what the engine process
\* has been asked: the searches whose 'go' it has read and not yet answered.
VARIABLES on_info, told, pending

hvars == <<on_info, told, pending>>

\* The game as the window records it (class ChessGUI of src/gui.py):
\* game_paused, the was_paused of a _stop_game in progress, and the calls of
\* db.save_game since the game began, each named after the method that made
\* it.
VARIABLES game_paused, was_paused, saved

svars == <<game_paused, was_paused, saved>>

\* The loading screen (class LoadingScreen of src/chess_arena.py): its
\* flags, what the loaders found, the labels, where each loader thread is,
\* the callbacks given to root.after(0, ...) that have not run yet, and how
\* often _launch_main has been scheduled and has run.
VARIABLES _openings_done, _analyzer_done, _opening_book, _analyzer_eng,
          labels, loader, events, scheduled, launched

lvars == <<_openings_done, _analyzer_done, _opening_book, _analyzer_eng,
           labels, loader, events, scheduled, launched>>

vars == <<bvars, evars, gvars, avars, hvars, svars, lvars>>

None == "None"

(***************************************************************************)
(* Characters                                                              *)
(***************************************************************************)
FILES == <<"a","b","c","d","e","f","g","h">>

DIGITS == <<"0","1","2","3","4","5","6","7","8","9">>

LOWERS == <<"a","b","c","d","e","f","g","h","i","j","k","l","m",
            "n","o","p","q","r","s","t","u","v","w","x","y","z">>

UPPERS == <<"A","B","C","D","E","F","G","H","I","J","K","L","M",
            "N","O","P","Q","R","S","T","U","V","W","X","Y","Z">>

Range(s) == { s[i] : i \in DOMAIN s }

IndexOf(s, x) == CHOOSE i \in DOMAIN s : s[i] = x

DIGIT_SET == Range(DIGITS)

UPPER_SET == Range(UPPERS)

LOWER_SET == Range(LOWERS)

LOWER_OF == [ch \in UPPER_SET |-> LOWERS[IndexOf(UPPERS, ch)]]

UPPER_OF == [ch \in LOWER_SET |-> UPPERS[IndexOf(LOWERS, ch)]]

isdigit(ch) == ch \in DIGIT_SET

isupper(ch) == ch \in UPPER_SET

islower(ch) == ch \in LOWER_SET

\* ord(ch) for the ASCII characters that occur in the texts handled here
ORD_OF ==
    [ch \in DIGIT_SET \cup UPPER_SET \cup LOWER_SET \cup {" ", "-", "/"} |->
        IF isdigit(ch) THEN 47 + IndexOf(DIGITS, ch)
        ELSE IF isupper(ch) THEN 64 + IndexOf(UPPERS, ch)
        ELSE IF islower(ch) THEN 96 + IndexOf(LOWERS, ch)
        ELSE IF ch = " " THEN 32
        ELSE IF ch = "-" THEN 45
        ELSE 47]

ord(ch) == ORD_OF[ch]

\* chr(ord('a') + c) for a file index c in 0..7
file_chr(c) == FILES[c + 1]

lower(ch) == IF isupper(ch) THEN LOWER_OF[ch] ELSE ch

upper(ch) == IF islower(ch) THEN UPPER_OF[ch] ELSE ch

\* int(ch) of one decimal digit
digit_val(ch) == ord(ch) - 48

\* int were only the first digit read
int_of_first_digit(s) == digit_val(s[1])

\* int(text) of a non-empty run of decimal digits
RECURSIVE int(_)
int(s) ==
    IF Len(s) = 1 THEN digit_val(s[1])
    ELSE 10 * int(SubSeq(s, 1, Len(s) - 1)) + digit_val(s[Len(s)])

\* str(n) of a natural number
RECURSIVE str(_)
str(n) ==
    IF n < 10 THEN <<DIGITS[n + 1]>>
    ELSE str(n \div 10) \o <<DIGITS[(n % 10) + 1]>>

\* sep.join(parts)
RECURSIVE join(_, _)
join(sep, parts) ==
    IF Len(parts) = 0 THEN <<>>
    ELSE IF Len(parts) = 1 THEN parts[1]
    ELSE parts[1] \o sep \o join(sep, Tail(parts))

\* text.split(sep) for a one-character separator: empty pieces are kept
RECURSIVE split_on(_, _, _)
split_on(s, sep, cur) ==
    IF Len(s) = 0 THEN <<cur>>
    ELSE IF s[1] = sep THEN <<cur>> \o split_on(Tail(s), sep, <<>>)
    ELSE split_on(Tail(s), sep, Append(cur, s[1]))

\* text.split(): runs of blanks separate, empty pieces are dropped
RECURSIVE split_ws(_, _)
split_ws(s, cur) ==
    IF Len(s) = 0 THEN (IF Len(cur) = 0 THEN <<>> ELSE <<cur>>)
    ELSE IF s[1] = " "
         THEN (IF Len(cur) = 0 THEN <<>> ELSE <<cur>>) \o split_ws(Tail(s), <<>>)
    ELSE split_ws(Tail(s), Append(cur, s[1]))

(***************************************************************************)
(* Constants of the rules engine                                           *)
(***************************************************************************)
START_FEN ==
    <<"r","n","b","q","k","b","n","r","/",
      "p","p","p","p","p","p","p","p","/",
      "8","/","8","/","8","/","8","/",
      "P","P","P","P","P","P","P","P","/",
      "R","N","B","Q","K","B","N","R",
      " ","w"," ","K","Q","k","q"," ","-"," ","0"," ","1">>

ROOK_D == << <<1,0>>, <<-1,0>>, <<0,1>>, <<0,-1>> >>

BISHOP_D == << <<1,1>>, <<1,-1>>, <<-1,1>>, <<-1,-1>> >>

QUEEN_D == ROOK_D \o BISHOP_D

\* the knight's offsets were the four forward ones missing
KNIGHT_D_backward ==
    << <<1,-2>>, <<1,2>>, <<2,-1>>, <<2,1>> >>

KNIGHT_D == << <<2,1>>, <<2,-1>>, <<-2,1>>, <<-2,-1>>,
               <<1,2>>, <<1,-2>>, <<-1,2>>, <<-1,-2>> >>

KING_D == ROOK_D \o BISHOP_D

valid(r, c) == 0 <= r /\ r < 8 /\ 0 <= c /\ c < 8

(***************************************************************************)
(* Board: a record with the fields of the Python object.                   *)
(***************************************************************************)
is_w(p) == p \notin {".", ""} /\ isupper(p)

is_b(p) == p \notin {".", ""} /\ islower(p)

same(p1, p2) == (is_w(p1) /\ is_w(p2)) \/ (is_b(p1) /\ is_b(p2))

enemy(p, t) == IF t = "w" THEN is_b(p) ELSE is_w(p)

\* the squares in the order of "for r in range(8): for c in range(8)"
SQUARES == [i \in 1..64 |-> <<(i - 1) \div 8, (i - 1) % 8>>]

\* find_king: the first square holding the king in row-major order, <<>> for
\* Python's None
find_king(self, t) ==
    LET k == IF t = "w" THEN "K" ELSE "k"
        in_row(r) == \E c \in 0..7 : self.board[r][c] = k
    IN  IF \E r \in 0..7 : in_row(r)
        THEN LET r == CHOOSE x \in 0..7 : in_row(x) /\ \A y \in 0..(x - 1) : ~in_row(y)
                 c == CHOOSE x \in 0..7 :
                        self.board[r][x] = k /\ \A y \in 0..(x - 1) : self.board[r][y] # k
             IN  <<r, c>>
        ELSE <<>>

\* the while loop of is_attacked along one direction
RECURSIVE ray_attacked(_, _, _, _, _, _, _)
ray_attacked(self, nr, nc, dr, dc, chars, by) ==
    IF ~valid(nr, nc) THEN FALSE
    ELSE LET p == self.board[nr][nc]
         IN  IF p # "."
             THEN lower(p) \in chars /\ (IF by = "w" THEN is_w(p) ELSE is_b(p))
             ELSE ray_attacked(self, nr + dr, nc + dc, dr, dc, chars, by)

is_attacked(self, r, c, by) ==
    LET has(p) == IF by = "w" THEN is_w(p) ELSE is_b(p)
        pawn_dirs == IF by = "w" THEN << <<1,-1>>, <<1,1>> >>
                     ELSE << <<-1,-1>>, <<-1,1>> >>
        near(dirs, kind) ==
            \E i \in DOMAIN dirs :
                LET nr == r + dirs[i][1]
                    nc == c + dirs[i][2]
                IN  /\ valid(nr, nc)
                    /\ lower(self.board[nr][nc]) = kind
                    /\ has(self.board[nr][nc])
    IN  \/ near(KNIGHT_D, "n")
        \/ \E i \in DOMAIN ROOK_D :
              ray_attacked(self, r + ROOK_D[i][1], c + ROOK_D[i][2],
                           ROOK_D[i][1], ROOK_D[i][2], {"q", "r"}, by)
        \/ \E i \in DOMAIN BISHOP_D :
              ray_attacked(self, r + BISHOP_D[i][1], c + BISHOP_D[i][2],
                           BISHOP_D[i][1], BISHOP_D[i][2], {"q", "b"}, by)
        \/ near(KING_D, "k")
        \/ near(pawn_dirs, "p")

\* in_check were it to look at the king of the side to move whatever turn is
in_check_of_mover(self, turn_arg) ==
    LET k == find_king(self, self.turn)
        opp == IF self.turn = "w" THEN "b" ELSE "w"
    IN  IF k = <<>> THEN FALSE
        ELSE is_attacked(self, k[1], k[2], opp)

\* in_check(turn=None): None stands for the side to move
in_check(self, turn_arg) ==
    LET t == IF turn_arg = None THEN self.turn ELSE turn_arg
        k == find_king(self, t)
        opp == IF t = "w" THEN "b" ELSE "w"
    IN  IF k = <<>> THEN FALSE
        ELSE is_attacked(self, k[1], k[2], opp)

\* Board.__new__ followed by the field copies at the head of _apply_raw
new_board(grid, t, cas, e, hm, fm) ==
    [board |-> grid, turn |-> t, castling |-> cas, ep |-> e,
     halfmove |-> hm, fullmove |-> fm,
     move_history |-> <<>>, pos_history |-> <<>>,
     cap_white |-> <<>>, cap_black |-> <<>>]

\* "flag in text" for a one-character flag
has_char(text, ch) == \E i \in DOMAIN text : text[i] = ch

\* [x for x in text if x not in drop]
without(text, drop) ==
    LET keep(x) == x \notin drop
    IN  SelectSeq(text, keep)

\* concatenation of a sequence of sequences, in order
RECURSIVE concat(_)
concat(ss) == IF Len(ss) = 0 THEN <<>> ELSE ss[1] \o concat(Tail(ss))

ep_row(e) == 8 - digit_val(e[2])

ep_col(e) == ord(e[1]) - ord("a")

\* ep_after were the test for a pawn missing
ep_after_any_piece(p, fr, fc, tr) ==
    LET absd == IF fr >= tr THEN fr - tr ELSE tr - fr
    IN  IF absd = 2
        THEN <<file_chr(fc)>> \o str(8 - ((fr + tr) \div 2))
        ELSE <<"-">>

\* _apply_raw, lines 504-508: the en-passant target after a move of piece p
ep_after(p, fr, fc, tr) ==
    LET absd == IF fr >= tr THEN fr - tr ELSE tr - fr
    IN  IF p = "p" /\ absd = 2
        THEN <<file_chr(fc)>> \o str(8 - ((fr + tr) \div 2))
        ELSE <<"-">>

\* castling_after were no flag ever dropped
castling_kept(cas, p, t, fr, fc, tr, tc) == cas

\* castling_after were a capture on a corner to leave the flags alone
castling_after_own_moves(cas, p, t, fr, fc, tr, tc) ==
    LET cas0 == without(cas, {"-"})
        cas1 == IF p = "k"
                THEN without(cas0, IF t = "w" THEN {"K", "Q"} ELSE {"k", "q"})
                ELSE cas0
        pairs == << <<7,7,"K">>, <<7,0,"Q">>, <<0,7,"k">>, <<0,0,"q">> >>
        from_corner == { pairs[i][3] : i \in { j \in 1..4 :
                            fr = pairs[j][1] /\ fc = pairs[j][2] } }
        cas2 == IF p = "r" THEN without(cas1, from_corner) ELSE cas1
    IN  IF Len(cas2) > 0 THEN cas2 ELSE <<"-">>

\* _apply_raw, lines 510-521: the castling flags after a move of piece p by t
castling_after(cas, p, t, fr, fc, tr, tc) ==
    LET cas0 == without(cas, {"-"})
        cas1 == IF p = "k"
                THEN without(cas0, IF t = "w" THEN {"K", "Q"} ELSE {"k", "q"})
                ELSE cas0
        pairs == << <<7,7,"K">>, <<7,0,"Q">>, <<0,7,"k">>, <<0,0,"q">> >>
        from_corner == { pairs[i][3] : i \in { j \in 1..4 :
                            fr = pairs[j][1] /\ fc = pairs[j][2] } }
        to_corner == { pairs[i][3] : i \in { j \in 1..4 :
                            tr = pairs[j][1] /\ tc = pairs[j][2] } }
        cas2 == IF p = "r" THEN without(cas1, from_corner) ELSE cas1
        cas3 == without(cas2, to_corner)
    IN  IF Len(cas3) > 0 THEN cas3 ELSE <<"-">>

\* halfmove_after were a capture by a piece not to reset the clock
halfmove_after_pawn_only(hm, p, target) == IF p = "p" THEN 0 ELSE hm + 1

\* _apply_raw, line 523: the half-move clock after a move of piece p to a
\* square that held target
halfmove_after(hm, p, target) == IF p = "p" \/ target # "." THEN 0 ELSE hm + 1

\* _apply_raw: the position after a move, on a copy that carries no history
_apply_raw(self, fr, fc, tr, tc, promo) ==
    LET piece == self.board[fr][fc]
        target == self.board[tr][tc]
        p == lower(piece)
        t == self.turn
        \* en-passant capture: the pawn beside the mover goes
        g1 == IF p = "p" /\ self.ep # <<"-">>
                 /\ tr = ep_row(self.ep) /\ tc = ep_col(self.ep)
              THEN [self.board EXCEPT ![fr][ep_col(self.ep)] = "."]
              ELSE self.board
        \* castling: the rook jumps over the king
        rk == IF t = "w" THEN "R" ELSE "r"
        g2 == IF p = "k" /\ fc = 4 /\ tc = 6
              THEN [g1 EXCEPT ![fr][7] = ".", ![fr][5] = rk]
              ELSE IF p = "k" /\ fc = 4 /\ tc = 2
              THEN [g1 EXCEPT ![fr][0] = ".", ![fr][3] = rk]
              ELSE g1
        g3 == [[g2 EXCEPT ![tr][tc] = piece] EXCEPT ![fr][fc] = "."]
        g4 == IF promo # None
              THEN [g3 EXCEPT ![tr][tc] = IF t = "w" THEN upper(promo) ELSE lower(promo)]
              ELSE IF p = "p" /\ (tr = 0 \/ tr = 7)
              THEN [g3 EXCEPT ![tr][tc] = IF t = "w" THEN "Q" ELSE "q"]
              ELSE g3
    IN  new_board(g4, IF t = "w" THEN "b" ELSE "w",
                  castling_after(self.castling, p, t, fr, fc, tr, tc),
                  ep_after(p, fr, fc, tr),
                  halfmove_after(self.halfmove, p, target),
                  IF t = "b" THEN self.fullmove + 1 ELSE self.fullmove)

\* the while loop of _pseudo along one direction, for bishop, rook and queen
RECURSIVE ray_moves(_, _, _, _, _, _, _, _)
ray_moves(self, r, c, nr, nc, dr, dc, t) ==
    IF ~valid(nr, nc) THEN <<>>
    ELSE LET t2 == self.board[nr][nc]
         IN  IF t2 = "."
             THEN << <<r, c, nr, nc, None>> >>
                  \o ray_moves(self, r, c, nr + dr, nc + dc, dr, dc, t)
             ELSE IF enemy(t2, t) THEN << <<r, c, nr, nc, None>> >>
             ELSE <<>>

\* the moves of a knight or the one-square moves of a king
step_moves(self, r, c, dirs) ==
    LET piece == self.board[r][c]
        all == [i \in DOMAIN dirs |-> <<r, c, r + dirs[i][1], c + dirs[i][2], None>>]
        ok(m) == valid(m[3], m[4]) /\ ~same(piece, self.board[m[3]][m[4]])
    IN  SelectSeq(all, ok)

PROMOS == <<"q", "r", "b", "n">>

pawn_moves(self, r, c, t) ==
    LET fwd == IF t = "w" THEN -1 ELSE 1
        start_r == IF t = "w" THEN 6 ELSE 1
        promo_r == IF t = "w" THEN 0 ELSE 7
        nr == r + fwd
        promote(nc) == [i \in 1..4 |-> <<r, c, nr, nc, PROMOS[i]>>]
        ahead ==
            IF valid(nr, c) /\ self.board[nr][c] = "."
            THEN IF nr = promo_r THEN promote(c)
                 ELSE << <<r, c, nr, c, None>> >>
                      \o (IF r = start_r /\ self.board[r + 2 * fwd][c] = "."
                          THEN << <<r, c, r + 2 * fwd, c, None>> >>
                          ELSE <<>>)
            ELSE <<>>
        take(dc) ==
            LET nc == c + dc
            IN  IF valid(nr, nc)
                THEN LET tgt == self.board[nr][nc]
                         is_cap == enemy(tgt, t)
                         is_ep == /\ self.ep # <<"-">>
                                  /\ nr = ep_row(self.ep)
                                  /\ nc = ep_col(self.ep)
                     IN  IF is_cap \/ is_ep
                         THEN IF nr = promo_r THEN promote(nc)
                              ELSE << <<r, c, nr, nc, None>> >>
                         ELSE <<>>
                ELSE <<>>
    IN  ahead \o take(-1) \o take(1)

king_moves(self, r, c, t) ==
    LET opp == IF t = "w" THEN "b" ELSE "w"
        kr == IF t = "w" THEN 7 ELSE 0
        kc == 4
        ks == IF t = "w" THEN "K" ELSE "k"
        qs == IF t = "w" THEN "Q" ELSE "q"
        rp == IF t = "w" THEN "R" ELSE "r"
        cas == self.castling
        short == /\ has_char(cas, ks)
                 /\ self.board[kr][5] = "." /\ self.board[kr][6] = "."
                 /\ self.board[kr][7] = rp
                 /\ ~is_attacked(self, kr, 5, opp) /\ ~is_attacked(self, kr, 6, opp)
        long == /\ has_char(cas, qs)
                /\ self.board[kr][3] = "." /\ self.board[kr][2] = "."
                /\ self.board[kr][1] = "." /\ self.board[kr][0] = rp
                /\ ~is_attacked(self, kr, 3, opp) /\ ~is_attacked(self, kr, 2, opp)
    IN  step_moves(self, r, c, KING_D)
        \o (IF r = kr /\ c = kc /\ ~is_attacked(self, kr, kc, opp)
            THEN (IF short THEN << <<r, c, kr, kc + 2, None>> >> ELSE <<>>)
                 \o (IF long THEN << <<r, c, kr, kc - 2, None>> >> ELSE <<>>)
            ELSE <<>>)

_pseudo(self, r, c) ==
    LET piece == self.board[r][c]
        p == lower(piece)
        t == IF isupper(piece) THEN "w" ELSE "b"
        dirs == IF p = "b" THEN BISHOP_D ELSE IF p = "r" THEN ROOK_D ELSE QUEEN_D
    IN  IF piece = "." THEN <<>>
        ELSE IF p = "p" THEN pawn_moves(self, r, c, t)
        ELSE IF p = "n" THEN step_moves(self, r, c, KNIGHT_D)
        ELSE IF p \in {"b", "r", "q"}
        THEN concat([i \in DOMAIN dirs |->
                 ray_moves(self, r, c, r + dirs[i][1], c + dirs[i][2],
                           dirs[i][1], dirs[i][2], t)])
        ELSE IF p = "k" THEN king_moves(self, r, c, t)
        ELSE <<>>

\* legal_moves(turn=None): None stands for the side to move
legal_moves(self, turn_arg) ==
    LET t == IF turn_arg = None THEN self.turn ELSE turn_arg
        safe(mv) == ~in_check(_apply_raw(self, mv[1], mv[2], mv[3], mv[4], mv[5]), t)
        of_square(i) ==
            LET r == SQUARES[i][1]
                c == SQUARES[i][2]
                p == self.board[r][c]
            IN  IF p = "." THEN <<>>
                ELSE IF (t = "w") # isupper(p) THEN <<>>
                ELSE SelectSeq(_pseudo(self, r, c), safe)
    IN  concat([i \in 1..64 |-> of_square(i)])

(***************************************************************************)
(* Serialisation                                                           *)
(***************************************************************************)
\* the inner loop of to_fen over one row: e counts the empty cells pending
RECURSIVE fen_row(_, _, _)
fen_row(row, c, e) ==
    IF c > 7 THEN (IF e > 0 THEN str(e) ELSE <<>>)
    ELSE IF row[c] = "." THEN fen_row(row, c + 1, e + 1)
    ELSE (IF e > 0 THEN str(e) ELSE <<>>) \o <<row[c]>> \o fen_row(row, c + 1, 0)

to_fen(self) ==
    LET rows == [i \in 1..8 |-> fen_row(self.board[i - 1], 0, 0)]
        c == IF Len(self.castling) > 0 THEN self.castling ELSE <<"-">>
    IN  join(<<" ">>, << join(<<"/">>, rows), <<self.turn>>, c, self.ep,
                         str(self.halfmove), str(self.fullmove) >>)

_pos_key(self) ==
    LET parts == split_ws(to_fen(self), <<>>)
    IN  join(<<" ">>, SubSeq(parts, 1, 4))

\* the cells of one row text of a FEN: a digit stands for that many empty cells
RECURSIVE load_row(_)
load_row(row_str) ==
    IF Len(row_str) = 0 THEN <<>>
    ELSE (IF isdigit(row_str[1])
          THEN [i \in 1..digit_val(row_str[1]) |-> "."]
          ELSE <<row_str[1]>>) \o load_row(Tail(row_str))

\* a Python list as a function indexed from 0
list0(s) == [i \in 0..(Len(s) - 1) |-> s[i + 1]]

\* _load_fen sets the six serialised fields and leaves the others alone
_load_fen(self, fen) ==
    LET parts == split_ws(fen, <<>>)
        row_strs == split_on(parts[1], "/", <<>>)
        grid == list0([i \in DOMAIN row_strs |-> list0(load_row(row_strs[i]))])
    IN  [self EXCEPT
            !.board = grid,
            !.turn = IF Len(parts) > 1 THEN parts[2][1] ELSE "w",
            !.castling = IF Len(parts) > 2 THEN parts[3] ELSE <<"-">>,
            !.ep = IF Len(parts) > 3 THEN parts[4] ELSE <<"-">>,
            !.halfmove = IF Len(parts) > 4 THEN int(parts[5]) ELSE 0,
            !.fullmove = IF Len(parts) > 5 THEN int(parts[6]) ELSE 1]

\* Board.__init__
Board ==
    _load_fen([board |-> <<>>, turn |-> "w", castling |-> <<"K","Q","k","q">>,
               ep |-> <<"-">>, halfmove |-> 0, fullmove |-> 1,
               move_history |-> <<>>, pos_history |-> <<>>,
               cap_white |-> <<>>, cap_black |-> <<>>],
              START_FEN)

(***************************************************************************)
(* Notation, apply_uci and game_result                                     *)
(***************************************************************************)
\* "x in list"
contains(list, x) == \E i \in DOMAIN list : list[i] = x

square_name(r, c) == <<file_chr(c)>> \o str(8 - r)

\* _build_san were the origin file the only disambiguator
_build_san_by_file(self, fr, fc, tr, tc, promo, legal) ==
    LET piece == self.board[fr][fc]
        p == lower(piece)
        target == self.board[tr][tc]
        is_cap == \/ target # "."
                  \/ /\ p = "p" /\ self.ep # <<"-">>
                     /\ tc = ep_col(self.ep) /\ tr = ep_row(self.ep)
        to_sq == square_name(tr, tc)
        suffix == IF promo # None THEN <<"=", upper(promo)>> ELSE <<>>
        other(m) == /\ m[3] = tr /\ m[4] = tc /\ m[5] = promo
                    /\ lower(self.board[m[1]][m[2]]) = p
                    /\ ~(m[1] = fr /\ m[2] = fc)
        ambig == SelectSeq(legal, other)
        dis == IF Len(ambig) = 0 THEN <<>> ELSE <<file_chr(fc)>>
    IN  IF p = "k" /\ fc = 4 /\ tc = 6 THEN <<"O","-","O">>
        ELSE IF p = "k" /\ fc = 4 /\ tc = 2 THEN <<"O","-","O","-","O">>
        ELSE IF p = "p"
        THEN (IF is_cap THEN <<file_chr(fc), "x">> \o to_sq ELSE to_sq) \o suffix
        ELSE <<upper(p)>> \o dis \o (IF is_cap THEN <<"x">> ELSE <<>>) \o to_sq
             \o suffix

_build_san(self, fr, fc, tr, tc, promo, legal) ==
    LET piece == self.board[fr][fc]
        p == lower(piece)
        target == self.board[tr][tc]
        is_cap == \/ target # "."
                  \/ /\ p = "p" /\ self.ep # <<"-">>
                     /\ tc = ep_col(self.ep) /\ tr = ep_row(self.ep)
        to_sq == square_name(tr, tc)
        suffix == IF promo # None THEN <<"=", upper(promo)>> ELSE <<>>
        other(m) == /\ m[3] = tr /\ m[4] = tc /\ m[5] = promo
                    /\ lower(self.board[m[1]][m[2]]) = p
                    /\ ~(m[1] = fr /\ m[2] = fc)
        ambig == SelectSeq(legal, other)
        sf == \E i \in DOMAIN ambig : ambig[i][2] = fc
        sr == \E i \in DOMAIN ambig : ambig[i][1] = fr
        dis == IF Len(ambig) = 0 THEN <<>>
               ELSE IF ~sf THEN <<file_chr(fc)>>
               ELSE IF ~sr THEN str(8 - fr)
               ELSE <<file_chr(fc)>> \o str(8 - fr)
    IN  IF p = "k" /\ fc = 4 /\ tc = 6 THEN <<"O","-","O">>
        ELSE IF p = "k" /\ fc = 4 /\ tc = 2 THEN <<"O","-","O","-","O">>
        ELSE IF p = "p"
        THEN (IF is_cap THEN <<file_chr(fc), "x">> \o to_sq ELSE to_sq) \o suffix
        ELSE <<upper(p)>> \o dis \o (IF is_cap THEN <<"x">> ELSE <<>>) \o to_sq
             \o suffix

\* dict.get(key, 0)
get0(dict, key) == IF key \in DOMAIN dict THEN dict[key] ELSE 0

\* dict[key] = value
put(dict, key, value) ==
    [k \in DOMAIN dict \cup {key} |-> IF k = key THEN value ELSE dict[k]]

\* the outcome of a call: the exception raised (None for a normal return), the
\* object after the call and the value returned (<<>> when nothing is)
outcome(exc, self, ret) == [raised |-> exc, self |-> self, ret |-> ret]

\* the single element of a one-element set: the({ e(x) : x \in {v} }) reads
\* "e(x) where x is v", with v computed once
the(S) == CHOOSE x \in S : TRUE

\* the piece apply_uci reports as captured (lines 545-555 and 570)
captured(self, fr, fc, tr, tc) ==
    LET target == self.board[tr][tc]
        p == lower(self.board[fr][fc])
        by_ep == /\ p = "p" /\ self.ep # <<"-">>
                 /\ tr = ep_row(self.ep) /\ tc = ep_col(self.ep)
    IN  IF by_ep THEN self.board[fr][ep_col(self.ep)]
        ELSE IF target # "." THEN target ELSE None

\* apply_uci, lines 557-563: the object takes the position of the copy
moved_to(self, new) ==
    [self EXCEPT !.board = new.board, !.castling = new.castling,
                 !.ep = new.ep, !.halfmove = new.halfmove,
                 !.fullmove = new.fullmove, !.turn = new.turn]

\* apply_uci, lines 565-568: the check or mate mark
marked(san, moved) ==
    IF in_check(moved, None)
    THEN san \o (IF Len(legal_moves(moved, None)) = 0 THEN <<"#">> ELSE <<"+">>)
    ELSE san

\* apply_uci, lines 570-581: the capture lists, the history, the return value
recorded(moved, uci, san, cap) ==
    LET counted == cap # None /\ cap # "."
    IN  outcome(None,
            [moved EXCEPT
                !.cap_white = IF counted /\ moved.turn = "w"
                              THEN Append(@, cap) ELSE @,
                !.cap_black = IF counted /\ moved.turn # "w"
                              THEN Append(@, cap) ELSE @,
                !.move_history = Append(@, <<uci, san, to_fen(moved)>>),
                !.pos_history = put(@, _pos_key(moved),
                                    get0(@, _pos_key(moved)) + 1)],
            <<san, cap>>)

\* apply_move were the clock touched before the move is refused
apply_move_touching(self, uci, fr, fc, tr, tc, promo_in, legal) ==
    LET listed == contains(legal, <<fr, fc, tr, tc, promo_in>>)
        queened == promo_in = None /\ contains(legal, <<fr, fc, tr, tc, "q">>)
    IN  IF ~listed /\ ~queened
        THEN outcome("ValueError", [self EXCEPT !.halfmove = @ + 1], <<>>)
        ELSE the({
            the({ the({ recorded(moved, uci, san, captured(self, fr, fc, tr, tc))
                        : san \in {marked(_build_san(self, fr, fc, tr, tc, promo,
                                                     legal), moved)} })
                  : moved \in {moved_to(self, the({ new : new \in
                                 {_apply_raw(self, fr, fc, tr, tc, promo)} }))} })
            : promo \in {IF listed THEN promo_in ELSE "q"} })

\* apply_uci from line 537 on, with the parsed move and the legal-move list
apply_move(self, uci, fr, fc, tr, tc, promo_in, legal) ==
    LET listed == contains(legal, <<fr, fc, tr, tc, promo_in>>)
        queened == promo_in = None /\ contains(legal, <<fr, fc, tr, tc, "q">>)
    IN  IF ~listed /\ ~queened THEN outcome("ValueError", self, <<>>)
        ELSE the({
            the({ the({ recorded(moved, uci, san, captured(self, fr, fc, tr, tc))
                        : san \in {marked(_build_san(self, fr, fc, tr, tc, promo,
                                                     legal), moved)} })
                  : moved \in {moved_to(self, the({ new : new \in
                                 {_apply_raw(self, fr, fc, tr, tc, promo)} }))} })
            : promo \in {IF listed THEN promo_in ELSE "q"} })

\* apply_uci up to line 533 (the text is parsed), then apply_move; legal is
\* the list self.legal_moves() of line 535
apply_uci_on(self, uci, legal) ==
    IF Len(uci) < 4 THEN outcome("ValueError", self, <<>>)
    ELSE IF ~isdigit(uci[2]) \/ ~isdigit(uci[4])
    THEN outcome("ValueError", self, <<>>)    \* int() of a non-digit
    ELSE apply_move(self, uci,
                    8 - digit_val(uci[2]), ord(uci[1]) - ord("a"),
                    8 - digit_val(uci[4]), ord(uci[3]) - ord("a"),
                    IF Len(uci) > 4 THEN lower(uci[5]) ELSE None,
                    legal)

apply_uci(self, uci) == apply_uci_on(self, uci, legal_moves(self, None))

\* _insufficient were any number of knights and bishops too little
_insufficient_minors(self) ==
    LET cells == [i \in 1..64 |-> self.board[SQUARES[i][1]][SQUARES[i][2]]]
        heavy(x) == lower(x) \in {"p", "r", "q"}
    IN  Len(SelectSeq(cells, heavy)) = 0

_insufficient(self) ==
    LET cells == [i \in 1..64 |-> self.board[SQUARES[i][1]][SQUARES[i][2]]]
        white(x) == x # "." /\ isupper(x)
        black(x) == x # "." /\ ~isupper(x)
        not_king(x) == lower(x) # "k"
        lowered(list) == [i \in DOMAIN list |-> lower(list[i])]
        ws == lowered(SelectSeq(SelectSeq(cells, white), not_king))
        bs == lowered(SelectSeq(SelectSeq(cells, black), not_king))
    IN  \/ Len(ws) = 0 /\ Len(bs) = 0
        \/ Len(ws) = 0 /\ bs \in {<<"b">>, <<"n">>}
        \/ Len(bs) = 0 /\ ws \in {<<"b">>, <<"n">>}

\* game_result were the side to move named the winner
game_result_mover_wins(self) ==
    LET legal == legal_moves(self, None)
        pos == _pos_key(self)
        draw == "1/2-1/2"
    IN  IF Len(legal) = 0
        THEN IF in_check(self, None)
             THEN <<TRUE, IF self.turn = "w" THEN "1-0" ELSE "0-1",
                    "Checkmate", IF self.turn = "w" THEN "white" ELSE "black">>
             ELSE <<TRUE, draw, "Stalemate", None>>
        ELSE IF self.halfmove >= 100
        THEN <<TRUE, draw, "Draw by 50-move rule", None>>
        ELSE IF get0(self.pos_history, pos) >= 3
        THEN <<TRUE, draw, "Draw by threefold repetition", None>>
        ELSE IF _insufficient(self)
        THEN <<TRUE, draw, "Draw by insufficient material", None>>
        ELSE <<FALSE, "", "", None>>

\* game_result were the repetition looked at before the clock
game_result_repetition_first(self) ==
    LET legal == legal_moves(self, None)
        pos == _pos_key(self)
        draw == "1/2-1/2"
    IN  IF Len(legal) = 0
        THEN IF in_check(self, None)
             THEN <<TRUE, IF self.turn = "w" THEN "0-1" ELSE "1-0",
                    "Checkmate", IF self.turn = "w" THEN "black" ELSE "white">>
             ELSE <<TRUE, draw, "Stalemate", None>>
        ELSE IF get0(self.pos_history, pos) >= 3
        THEN <<TRUE, draw, "Draw by threefold repetition", None>>
        ELSE IF self.halfmove >= 100
        THEN <<TRUE, draw, "Draw by 50-move rule", None>>
        ELSE IF _insufficient(self)
        THEN <<TRUE, draw, "Draw by insufficient material", None>>
        ELSE <<FALSE, "", "", None>>

\* game_result: (over, result, reason, winner)
game_result(self) ==
    LET legal == legal_moves(self, None)
        pos == _pos_key(self)
        draw == "1/2-1/2"
    IN  IF Len(legal) = 0
        THEN IF in_check(self, None)
             THEN <<TRUE, IF self.turn = "w" THEN "0-1" ELSE "1-0",
                    "Checkmate", IF self.turn = "w" THEN "black" ELSE "white">>
             ELSE <<TRUE, draw, "Stalemate", None>>
        ELSE IF self.halfmove >= 100
        THEN <<TRUE, draw, "Draw by 50-move rule", None>>
        ELSE IF get0(self.pos_history, pos) >= 3
        THEN <<TRUE, draw, "Draw by threefold repetition", None>>
        ELSE IF _insufficient(self)
        THEN <<TRUE, draw, "Draw by insufficient material", None>>
        ELSE <<FALSE, "", "", None>>

uci_moves_list(self) == [i \in DOMAIN self.move_history |-> self.move_history[i][1]]

(***************************************************************************)
(* The state machine: one Board object and its callers                     *)
(***************************************************************************)
\* the Board object held in the variables
Self ==
    [board |-> board, turn |-> turn, castling |-> castling, ep |-> ep,
     halfmove |-> halfmove, fullmove |-> fullmove,
     move_history |-> move_history, pos_history |-> pos_history,
     cap_white |-> cap_white, cap_black |-> cap_black]

\* the Board after a call with outcome o
Assigned(o) ==
    /\ board' = o.self.board
    /\ turn' = o.self.turn
    /\ castling' = o.self.castling
    /\ ep' = o.self.ep
    /\ halfmove' = o.self.halfmove
    /\ fullmove' = o.self.fullmove
    /\ move_history' = o.self.move_history
    /\ pos_history' = o.self.pos_history
    /\ cap_white' = o.self.cap_white
    /\ cap_black' = o.self.cap_black
    /\ raised' = o.raised
    /\ returned' = o.ret

\* the variables after a call with outcome o made by the Board's only caller
Becomes(o) ==
    /\ Assigned(o)
    /\ UNCHANGED <<evars, gvars, avars, hvars, svars, lvars>>

\* no call made yet
NoCall == [op |-> None, raised |-> None, ret |-> <<>>, why |-> None, line |-> <<>>]

\* UCIEngine.__init__: no process, not ready, an empty queue; the clock and
\* both threads at rest
UCIEngine ==
    /\ process = None
    /\ ready = FALSE
    /\ q = <<>>
    /\ last_info = <<>>
    /\ os = "none"
    /\ trace = <<>>
    /\ burst = 0
    /\ now = 0
    /\ end = 0
    /\ wake = 0
    /\ movetime_ms = 0
    /\ pc = "idle"
    /\ call = NoCall
    /\ searches = 0
    /\ stop_pc = "idle"
    /\ stop_call = [returned |-> FALSE, raised |-> None, during |-> None]

\* the position as its constructor leaves it
NewBoard ==
    /\ board = Board.board
    /\ turn = Board.turn
    /\ castling = Board.castling
    /\ ep = Board.ep
    /\ halfmove = Board.halfmove
    /\ fullmove = Board.fullmove
    /\ move_history = Board.move_history
    /\ pos_history = Board.pos_history
    /\ cap_white = Board.cap_white
    /\ cap_black = Board.cap_black
    /\ raised = None
    /\ returned = <<>>

\* the threads of the window: Tk's main loop, _engine_move_thread and
\* _game_loop
THREADS == {"tk", "engine", "loop"}

\* ChessGUI.__init__: one Lock, nobody holding it, no game running
ChessGUI ==
    /\ board_lock = 1
    /\ locked = {}
    /\ holds = [t \in THREADS |-> 0]
    /\ game_running = FALSE
    /\ _engine_thinking = FALSE
    /\ play_mode = "engine_vs_engine"
    /\ player_color = "white"
    /\ after = {}
    /\ loading = None
    /\ at = [t \in THREADS |-> "idle"]
    /\ arg = [t \in THREADS |-> <<>>]
    /\ seen = [t \in THREADS |-> None]
    /\ base = [t \in THREADS |-> None]
    /\ undisturbed = [t \in THREADS |-> TRUE]
    /\ games = 0

\* no eval_position has been called (a score that may be None is <<>> for
\* None and <<s>> for s)
NoEval ==
    /\ moves_str = <<>>
    /\ last_score = <<>>
    /\ last_score_type = <<>>
    /\ heard = <<>>

\* no line has been given to _parse_info
NoParse ==
    /\ fields = <<>>
    /\ parsed = <<>>

\* no search has begun: no callback, nothing delivered
NoSearch ==
    /\ on_info = FALSE
    /\ told = <<>>
    /\ pending = <<>>

\* ChessGUI.__init__: no pause, and no game to record
NoGame ==
    /\ game_paused = FALSE
    /\ was_paused = FALSE
    /\ saved = <<>>

\* LoadingScreen.__init__: nothing is loaded, both loader threads have been
\* started, and mainloop has run no callback yet
LoadingScreen ==
    /\ _openings_done = FALSE
    /\ _analyzer_done = FALSE
    /\ _opening_book = None
    /\ _analyzer_eng = None
    /\ labels = [open |-> "Loading", anal |-> "Loading"]
    /\ loader = [openings |-> "for path", analyzer |-> "for p"]
    /\ events = <<>>
    /\ scheduled = 0
    /\ launched = 0

\* the objects as their constructors leave them
Init ==
    /\ NewBoard
    /\ UCIEngine
    /\ ChessGUI
    /\ NoEval
    /\ NoParse
    /\ NoSearch
    /\ NoGame
    /\ LoadingScreen

\* the long-form text the callers build from a legal move
uci_of(m) ==
    square_name(m[1], m[2]) \o square_name(m[3], m[4])
    \o (IF m[5] # None THEN <<m[5]>> ELSE <<>>)

(***************************************************************************)
(* The moves the callers pass.  The click handler and the engines pass any *)
(* legal move: all of them are followed for the first MaxFullPly plies,    *)
(* and beyond that the games below are followed move by move.              *)
(***************************************************************************)
\* every legal move is played while the game is shorter than this
MaxFullPly == 2

\* the number of times the knights go out and back in LINE_REPEAT
RepeatCycles == 3

\* the number of times the knights go out and back in LINE_FIFTY
FiftyCycles == 25

RECURSIVE times(_, _)
times(cycle, n) == IF n = 0 THEN <<>> ELSE cycle \o times(cycle, n - 1)

\* knights out and back: the starting position recurs every four plies
LINE_REPEAT ==
    times(
        << <<"g","1","f","3">>, <<"g","8","f","6">>, <<"f","3","g","1">>,
           <<"f","6","g","8">> >>,
        RepeatCycles)

\* a hundred plies without pawn move or capture, then mate by the queen
LINE_FIFTY ==
    << <<"f","2","f","3">>, <<"e","7","e","5">>, <<"g","2","g","4">> >>
    \o times(
        << <<"b","8","c","6">>, <<"b","1","c","3">>, <<"c","6","b","8">>,
           <<"c","3","b","1">> >>,
        FiftyCycles)
    \o << <<"d","8","h","4">> >>

\* fool's mate
LINE_FOOL ==
    << <<"f","2","f","3">>, <<"e","7","e","5">>, <<"g","2","g","4">>,
       <<"d","8","h","4">> >>

\* the shortest stalemate (ten moves)
LINE_STALEMATE ==
    << <<"e","2","e","3">>, <<"a","7","a","5">>, <<"d","1","h","5">>,
       <<"a","8","a","6">>, <<"h","5","a","5">>, <<"h","7","h","5">>,
       <<"h","2","h","4">>, <<"a","6","h","6">>, <<"a","5","c","7">>,
       <<"f","7","f","6">>, <<"c","7","d","7">>, <<"e","8","f","7">>,
       <<"d","7","b","7">>, <<"d","8","d","3">>, <<"b","7","b","8">>,
       <<"d","3","h","7">>, <<"b","8","c","8">>, <<"f","7","g","6">>,
       <<"c","8","e","6">> >>

\* both kings step aside and return
LINE_KING_BACK ==
    << <<"g","1","f","3">>, <<"g","8","f","6">>, <<"g","2","g","3">>,
       <<"g","7","g","6">>, <<"f","1","g","2">>, <<"f","8","g","7">>,
       <<"e","1","f","1">>, <<"e","8","f","8">>, <<"f","1","e","1">>,
       <<"f","8","e","8">>, <<"a","2","a","3">>, <<"a","7","a","6">> >>

\* both king-side rooks step aside and return
LINE_ROOK_BACK ==
    << <<"g","1","f","3">>, <<"g","8","f","6">>, <<"g","2","g","3">>,
       <<"g","7","g","6">>, <<"f","1","g","2">>, <<"f","8","g","7">>,
       <<"h","1","g","1">>, <<"h","8","g","8">>, <<"g","1","h","1">>,
       <<"g","8","h","8">>, <<"a","2","a","3">>, <<"a","7","a","6">> >>

\* both sides castle short, then king and rook walk home
LINE_CASTLE ==
    << <<"g","1","f","3">>, <<"g","8","f","6">>, <<"g","2","g","3">>,
       <<"g","7","g","6">>, <<"f","1","g","2">>, <<"f","8","g","7">>,
       <<"b","1","c","3">>, <<"b","8","c","6">>, <<"d","2","d","3">>,
       <<"d","7","d","6">>, <<"c","1","e","3">>, <<"c","8","e","6">>,
       <<"d","1","d","2">>, <<"d","8","d","7">>, <<"e","1","g","1">>,
       <<"e","8","g","8">>, <<"g","2","h","3">>, <<"g","7","h","6">>,
       <<"g","1","g","2">>, <<"g","8","g","7">>, <<"f","1","h","1">>,
       <<"f","8","h","8">>, <<"g","2","f","1">>, <<"g","7","f","8">>,
       <<"f","1","e","1">>, <<"f","8","e","8">>, <<"a","2","a","3">>,
       <<"a","7","a","6">> >>

\* both sides castle long
LINE_CASTLE_LONG ==
    << <<"g","1","f","3">>, <<"g","8","f","6">>, <<"g","2","g","3">>,
       <<"g","7","g","6">>, <<"f","1","g","2">>, <<"f","8","g","7">>,
       <<"b","1","c","3">>, <<"b","8","c","6">>, <<"d","2","d","3">>,
       <<"d","7","d","6">>, <<"c","1","e","3">>, <<"c","8","e","6">>,
       <<"d","1","d","2">>, <<"d","8","d","7">>, <<"e","1","c","1">>,
       <<"e","8","c","8">> >>

\* en passant, then a promotion passed without its letter
LINE_PROMOTE_DEFAULT ==
    << <<"e","2","e","4">>, <<"a","7","a","6">>, <<"e","4","e","5">>,
       <<"d","7","d","5">>, <<"e","5","d","6">>, <<"a","6","a","5">>,
       <<"d","6","c","7">>, <<"a","5","a","4">>, <<"c","7","b","8">>,
       <<"g","8","h","6">> >>

\* a promotion to queen, captured by the king
LINE_PROMOTE_QUEEN ==
    << <<"e","2","e","4">>, <<"a","7","a","6">>, <<"e","4","e","5">>,
       <<"d","7","d","5">>, <<"e","5","d","6">>, <<"a","6","a","5">>,
       <<"d","6","c","7">>, <<"a","5","a","4">>, <<"c","7","d","8","q">>,
       <<"e","8","d","8">> >>

\* a promotion passed with an upper-case letter
LINE_PROMOTE_UPPER ==
    << <<"e","2","e","4">>, <<"a","7","a","6">>, <<"e","4","e","5">>,
       <<"d","7","d","5">>, <<"e","5","d","6">>, <<"a","6","a","5">>,
       <<"d","6","c","7">>, <<"a","5","a","4">>, <<"c","7","b","8","R">>,
       <<"g","8","h","6">> >>

\* a promotion to knight, then three knights that reach c3
LINE_THREE_KNIGHTS ==
    << <<"e","2","e","4">>, <<"a","7","a","6">>, <<"e","4","e","5">>,
       <<"d","7","d","5">>, <<"e","5","d","6">>, <<"a","6","a","5">>,
       <<"d","6","c","7">>, <<"a","5","a","4">>, <<"c","7","b","8","n">>,
       <<"g","8","h","6">>, <<"d","1","h","5">>, <<"h","6","g","8">>,
       <<"g","1","e","2">>, <<"g","8","h","6">>, <<"e","2","c","3">>,
       <<"h","6","g","8">>, <<"c","3","d","1">>, <<"g","8","h","6">>,
       <<"b","8","c","6">>, <<"h","6","g","8">>, <<"c","6","d","4">>,
       <<"g","8","h","6">>, <<"d","4","b","5">>, <<"h","6","g","8">>,
       <<"b","1","c","3">>, <<"g","8","h","6">> >>

\* captures down to king and two knights, one knight, bare kings
LINE_BARE_KINGS ==
    << <<"a","2","a","4">>, <<"b","7","b","5">>, <<"a","4","b","5">>,
       <<"b","8","c","6">>, <<"b","5","c","6">>, <<"d","7","c","6">>,
       <<"a","1","a","7">>, <<"a","8","a","7">>, <<"b","2","b","3">>,
       <<"d","8","d","2">>, <<"b","1","d","2">>, <<"c","8","h","3">>,
       <<"g","2","h","3">>, <<"a","7","a","4">>, <<"b","3","a","4">>,
       <<"g","8","f","6">>, <<"e","2","e","4">>, <<"f","6","e","4">>,
       <<"d","2","e","4">>, <<"f","7","f","6">>, <<"e","4","f","6">>,
       <<"e","8","f","7">>, <<"f","6","h","7">>, <<"g","7","g","5">>,
       <<"h","7","g","5">>, <<"f","7","f","6">>, <<"g","5","f","3">>,
       <<"h","8","h","3">>, <<"f","1","h","3">>, <<"e","7","e","6">>,
       <<"h","3","e","6">>, <<"f","6","e","6">>, <<"d","1","d","5">>,
       <<"c","6","d","5">>, <<"c","2","c","4">>, <<"d","5","c","4">>,
       <<"f","3","e","5">>, <<"f","8","g","7">>, <<"e","5","c","4">>,
       <<"g","7","h","6">>, <<"f","2","f","4">>, <<"h","6","f","4">>,
       <<"a","4","a","5">>, <<"f","4","h","2">>, <<"c","4","e","5">>,
       <<"c","7","c","6">>, <<"e","5","c","6">>, <<"h","2","f","4">>,
       <<"h","1","h","2">>, <<"f","4","h","2">>, <<"c","6","b","4">>,
       <<"h","2","c","7">>, <<"b","4","c","2">>, <<"c","7","a","5">>,
       <<"c","1","d","2">>, <<"a","5","d","2">>, <<"e","1","d","2">>,
       <<"e","6","e","5">>, <<"c","2","d","4">>, <<"e","5","d","4">>,
       <<"d","2","d","1">>, <<"d","4","e","4">>, <<"g","1","f","3">>,
       <<"e","4","f","3">>, <<"d","1","c","1">>, <<"f","3","g","4">>,
       <<"c","1","d","1">>, <<"g","4","f","3">>, <<"d","1","c","1">>,
       <<"f","3","g","4">>, <<"c","1","d","1">>, <<"g","4","f","3">>,
       <<"d","1","c","1">> >>

\* captures down to bishop against bishop, a lone bishop, stalemate
LINE_BISHOPS ==
    << <<"a","2","a","4">>, <<"b","7","b","5">>, <<"a","4","b","5">>,
       <<"b","8","c","6">>, <<"b","5","c","6">>, <<"d","7","c","6">>,
       <<"a","1","a","7">>, <<"a","8","a","7">>, <<"b","2","b","3">>,
       <<"d","8","d","2">>, <<"b","1","d","2">>, <<"c","8","h","3">>,
       <<"g","2","h","3">>, <<"a","7","a","4">>, <<"b","3","a","4">>,
       <<"g","8","f","6">>, <<"e","2","e","4">>, <<"f","6","e","4">>,
       <<"d","2","e","4">>, <<"f","7","f","6">>, <<"e","4","f","6">>,
       <<"e","8","f","7">>, <<"f","6","h","7">>, <<"g","7","g","5">>,
       <<"h","7","g","5">>, <<"f","7","f","6">>, <<"g","5","f","3">>,
       <<"h","8","h","3">>, <<"f","1","h","3">>, <<"e","7","e","6">>,
       <<"h","3","e","6">>, <<"f","6","e","6">>, <<"d","1","d","5">>,
       <<"c","6","d","5">>, <<"c","2","c","4">>, <<"d","5","c","4">>,
       <<"f","3","e","5">>, <<"f","8","g","7">>, <<"e","5","c","4">>,
       <<"g","7","h","6">>, <<"f","2","f","4">>, <<"h","6","f","4">>,
       <<"a","4","a","5">>, <<"f","4","h","2">>, <<"c","4","e","5">>,
       <<"c","7","c","6">>, <<"e","5","c","6">>, <<"h","2","f","4">>,
       <<"h","1","h","2">>, <<"f","4","h","2">>, <<"c","6","b","4">>,
       <<"h","2","c","7">>, <<"b","4","c","2">>, <<"c","7","a","5">>,
       <<"c","2","b","4">>, <<"a","5","b","4">>, <<"c","1","d","2">>,
       <<"b","4","c","5">>, <<"d","2","c","1">>, <<"c","5","g","1">>,
       <<"c","1","e","3">>, <<"g","1","e","3">>, <<"e","1","f","1">>,
       <<"e","6","e","5">>, <<"f","1","g","2">>, <<"e","5","f","4">>,
       <<"g","2","h","1">>, <<"f","4","g","3">> >>

\* scholar's mate: Black is mated
LINE_SCHOLAR ==
    << <<"e","2","e","4">>, <<"e","7","e","5">>, <<"d","1","h","5">>,
       <<"b","8","c","6">>, <<"f","1","c","4">>, <<"g","8","f","6">>,
       <<"h","5","f","7">> >>

\* the rook taken on h1, and the other rook brought to h1
LINE_ROOK_TAKEN ==
    << <<"g","2","g","4">>, <<"b","7","b","6">>, <<"f","1","g","2">>,
       <<"c","8","b","7">>, <<"g","1","h","3">>, <<"b","7","g","2">>,
       <<"a","2","a","4">>, <<"g","2","h","1">>, <<"a","1","a","3">>,
       <<"a","7","a","6">>, <<"h","3","f","4">>, <<"a","6","a","5">>,
       <<"h","2","h","4">>, <<"h","7","h","6">>, <<"a","3","h","3">>,
       <<"h","6","h","5">>, <<"h","3","h","1">>, <<"e","7","e","6">> >>

\* the promotion written with a sixth character
LINE_PROMOTE_LONG ==
    << <<"e","2","e","4">>, <<"a","7","a","6">>, <<"e","4","e","5">>,
       <<"d","7","d","5">>, <<"e","5","d","6">>, <<"a","6","a","5">>,
       <<"d","6","c","7">>, <<"a","5","a","4">>,
       <<"c","7","b","8","q","q">>, <<"g","8","h","6">> >>

\* 1.e4 e5 2.Nf3 Nc6
LINE_OPEN ==
    << <<"e","2","e","4">>, <<"e","7","e","5">>, <<"g","1","f","3">>,
       <<"b","8","c","6">> >>

LINES ==
    { LINE_REPEAT, LINE_FIFTY, LINE_FOOL, LINE_STALEMATE, LINE_KING_BACK,
      LINE_ROOK_BACK, LINE_CASTLE, LINE_CASTLE_LONG, LINE_PROMOTE_DEFAULT,
      LINE_PROMOTE_QUEEN, LINE_PROMOTE_UPPER, LINE_THREE_KNIGHTS,
      LINE_BARE_KINGS, LINE_BISHOPS, LINE_OPEN, LINE_SCHOLAR,
      LINE_ROOK_TAKEN, LINE_PROMOTE_LONG }

\* the next moves of the games that begin with the moves played so far
line_inputs(self) ==
    LET played == uci_moves_list(self)
        n == Len(played)
    IN  { l[n + 1] : l \in { x \in LINES : Len(x) > n /\ SubSeq(x, 1, n) = played } }

\* texts passed by a caller that does not look at the position
BLIND_INPUTS ==
    { <<"e","2","e","5">>, <<"e","1","g","1">>, <<"e","8","c","8">>,
      <<"a","1","a","1">>, <<"d","8","h","4">>, <<"c","7","b","8","k">>,
      <<"g","1","f","3","q">>, <<"e","7","e","8">> }

\* A caller (the click handler, an engine's reply) passes any legal move.
PlayLegal ==
    /\ Len(move_history) < MaxFullPly
    /\ \E legal \in {legal_moves(Self, None)} :
          \E i \in DOMAIN legal :
             \E o \in {apply_uci_on(Self, uci_of(legal[i]), legal)} :
                Becomes(o)

\* A caller passes the next move of one of the games.
PlayLine ==
    \E u \in line_inputs(Self) :
       \E o \in {apply_uci(Self, u)} :
          Becomes(o)

\* A caller passes a text that apply_uci refuses.
PlayRefused ==
    \E legal \in {legal_moves(Self, None)} :
       \E u \in BLIND_INPUTS :
          \E o \in {apply_uci_on(Self, u, legal)} :
             /\ o.raised = "ValueError"
             /\ Becomes(o)

\* Board.reset
Reset ==
    /\ Becomes(outcome(None, Board, <<>>))

Next == PlayLegal \/ PlayLine \/ PlayRefused \/ Reset

Spec == Init /\ [][Next]_vars

(***************************************************************************)
(* Properties                                                              *)
(***************************************************************************)
\* self.legal_moves() of the object held in the variables
Legal == legal_moves(Self, None)

draw_fifty == "Draw by 50-move rule"

draw_threefold == "Draw by threefold repetition"

draw_material == "Draw by insufficient material"

FILE_CHARS == {"a", "b", "c", "d", "e", "f", "g", "h"}

RANK_CHARS == {"1", "2", "3", "4", "5", "6", "7", "8"}

PROMO_CHARS == {"q", "r", "b", "n"}

SQUARE_TEXTS == { <<f, r>> : f \in FILE_CHARS, r \in RANK_CHARS }

\* the squares that hold a piece of the side to move
own_squares ==
    { square_name(sq[1], sq[2]) :
        sq \in { x \in Range(SQUARES) :
                   /\ board[x[1]][x[2]] # "."
                   /\ isupper(board[x[1]][x[2]]) = (turn = "w") } }

\* the move a text stands for
move_of(u) ==
    << 8 - digit_val(u[2]), ord(u[1]) - ord("a"),
       8 - digit_val(u[4]), ord(u[3]) - ord("a"),
       IF Len(u) > 4 THEN u[5] ELSE None >>

\* P holds of each of the well-formed long-form texts looked at in a
\* position: every move of a piece of the side to move to any square, the
\* same with each promotion letter to the squares of the first and the last
\* rank, and the texts of BLIND_INPUTS
every_text(P(_)) ==
    /\ \A o \in own_squares :
          \A d \in SQUARE_TEXTS :
             /\ P(o \o d)
             /\ d[2] \in {"1", "8"} => \A x \in PROMO_CHARS : P(o \o d \o <<x>>)
    /\ \A u \in BLIND_INPUTS : P(u)

\* the call raised ValueError and left every field of the object as it was
refused(o) == o.raised = "ValueError" /\ o.self = Self

\* a four-character text of a move that is legal as a promotion to a queen
queen_default(u, listed) ==
    Len(u) = 4 /\ [move_of(u) EXCEPT ![5] = "q"] \in listed

\* C1 as stated: in every position reached, apply_uci refuses every
\* well-formed text whose move is not in legal_moves(), and changes nothing.
C1_EveryMoveNotListedRefused ==
    \A legal \in {Legal} :
       \A listed \in {Range(legal)} :
          LET P(u) == move_of(u) \notin listed
                         => refused(apply_uci_on(Self, u, legal))
          IN  every_text(P)

\* C1: in every position reached, apply_uci refuses every well-formed text
\* whose move is not in legal_moves(), and changes nothing, unless the text
\* has no promotion letter and the move is legal as a promotion to a queen:
\* that text is applied as the promotion to a queen.
C1_MoveNotListedRefused ==
    \A legal \in {Legal} :
       \A listed \in {Range(legal)} :
          LET P(u) ==
                  move_of(u) \notin listed =>
                     IF queen_default(u, listed)
                     THEN \A o \in {apply_uci_on(Self, u, legal)} :
                             /\ o.raised = None
                             /\ to_fen(o.self)
                                  = to_fen(apply_uci_on(Self, u \o <<"q">>,
                                                        legal).self)
                     ELSE refused(apply_uci_on(Self, u, legal))
          IN  every_text(P)

\* a refused call after some moves of a game
C1_Witness == raised = "ValueError" /\ Len(move_history) > 0

\* the signature of a position text: board, side to move, castling, en passant
signature(fen) == join(<<" ">>, SubSeq(split_ws(fen, <<>>), 1, 4))

\* how many times the game has been in the position with this signature
occurrences(sig) ==
    (IF sig = signature(START_FEN) THEN 1 ELSE 0)
    + Cardinality({ i \in DOMAIN move_history :
                      signature(move_history[i][3]) = sig })

\* C2 as stated: the draw by repetition is not reported while the position
\* has occurred fewer than three times in the game, and is reported when it
\* occurs for the third time (no mate, stalemate or fifty-move draw standing
\* before it), the starting position included.
C2_ThirdOccurrenceReported ==
    \A n \in {occurrences(_pos_key(Self))} :
       \A reason \in {game_result(Self)[3]} :
          /\ n < 3 => reason # draw_threefold
          /\ (n >= 3 /\ Len(Legal) > 0 /\ halfmove < 100)
                => reason = draw_threefold

\* the starting position for the third time, and the game reported ongoing
C2_Witness ==
    /\ _pos_key(Self) = signature(START_FEN)
    /\ occurrences(_pos_key(Self)) = 3
    /\ game_result(Self) = <<FALSE, "", "", None>>

\* C2 as the code has it: the positions are counted from the first move on,
\* so the starting position is reported at its fourth occurrence.
C2_CountedFromFirstMove ==
    \A sig \in {_pos_key(Self)} :
       get0(pos_history, sig)
          = occurrences(sig) - (IF sig = signature(START_FEN) THEN 1 ELSE 0)

\* some move of the game left from, or arrived at, the square
left_from(sq) ==
    \E i \in DOMAIN move_history : SubSeq(move_history[i][1], 1, 2) = sq

arrived_at(sq) ==
    \E i \in DOMAIN move_history : SubSeq(move_history[i][1], 3, 4) = sq

home_rank(t) == IF t = "w" THEN "1" ELSE "8"

\* the king of side t has moved: the first piece to leave e1 (e8) is the king
king_has_moved(t) == left_from(<<"e", home_rank(t)>>)

\* the rook of side t has left the corner on file f, by moving or by being
\* captured there (when it left by castling the king has moved)
rook_has_left(t, f) ==
    left_from(<<f, home_rank(t)>>) \/ arrived_at(<<f, home_rank(t)>>)

\* a king going two files from the e-file
is_castling(m) ==
    lower(board[m[1]][m[2]]) = "k" /\ m[2] = 4 /\ m[4] \in {2, 6}

\* C3: once a side's king has moved, or the rook of a wing has left its
\* corner, legal_moves() never holds that castling move again.
C3_CastlingNeverComesBack ==
    \A legal \in {Legal} :
       \A i \in DOMAIN legal :
          is_castling(legal[i]) =>
             /\ ~king_has_moved(turn)
             /\ ~rook_has_left(turn, IF legal[i][4] = 6 THEN "h" ELSE "a")

\* White to move, the king back on e1 after a move, rook at h1, f1 and g1 empty
C3_Witness ==
    /\ turn = "w" /\ king_has_moved("w") /\ ~rook_has_left("w", "h")
    /\ board[7][4] = "K" /\ board[7][7] = "R"
    /\ board[7][5] = "." /\ board[7][6] = "."
    /\ ~in_check(Self, None)

\* the last move applied
last_move == move_of(move_history[Len(move_history)][1])

\* the last move was a pawn's advance of two squares
double_push ==
    /\ lower(board[last_move[3]][last_move[4]]) = "p"
    /\ last_move[2] = last_move[4]
    /\ last_move[1] - last_move[3] \in {2, -2}

\* C4: after every applied move the en-passant target is the square the pawn
\* passed over if the move was a pawn's advance of two squares, and "-" if
\* not: e3 after 1.e4, "-" after 1.e4 e5 2.Nf3 Nc6.
C4_EnPassantTarget ==
    /\ move_history = <<>> => ep = <<"-">>
    /\ move_history # <<>> =>
          ep = IF double_push
               THEN square_name((last_move[1] + last_move[3]) \div 2, last_move[2])
               ELSE <<"-">>
    /\ uci_moves_list(Self) = SubSeq(LINE_OPEN, 1, 1) => ep = <<"e", "3">>
    /\ uci_moves_list(Self) = LINE_OPEN => ep = <<"-">>

\* a target set by the move before the last and cleared by the last
C4_Witness ==
    /\ Len(move_history) >= 2
    /\ split_ws(move_history[Len(move_history) - 1][3], <<>>)[4] # <<"-">>
    /\ ep = <<"-">>

\* the six fields a position text carries
position_of(self) ==
    <<self.board, self.turn, self.castling, self.ep, self.halfmove, self.fullmove>>

\* C5: the text of to_fen(), loaded by _load_fen, gives the position back:
\* the object itself is left equal in every field, a new Board gets the same
\* board, side to move, castling, en-passant target and clocks, and to_fen()
\* of what was loaded is the same text.
C5_FenRoundTrip ==
    \A fen \in {to_fen(Self)} :
       /\ _load_fen(Self, fen) = Self
       /\ \A loaded \in {_load_fen(Board, fen)} :
             /\ position_of(loaded) = position_of(Self)
             /\ to_fen(loaded) = fen

\* castling rights lost and both clocks of two digits
C5_Witness ==
    castling # <<"K", "Q", "k", "q">> /\ halfmove >= 10 /\ fullmove >= 10

RECURSIVE sum(_)
sum(ns) == IF Len(ns) = 0 THEN 0 ELSE ns[1] + sum(Tail(ns))

\* the number of games of depth plies that begin in the position
RECURSIVE perft(_, _)
perft(self, depth) ==
    LET legal == legal_moves(self, None)
    IN  IF depth = 1 THEN Len(legal)
        ELSE sum([i \in DOMAIN legal |->
                    perft(apply_uci_on(self, uci_of(legal[i]), legal).self,
                          depth - 1)])

\* C6: the starting position has 20 legal moves, and the positions after
\* them have 400 legal moves together, 20 each.
C6_Perft ==
    /\ move_history = <<>> => perft(Self, 1) = 20 /\ perft(Self, 2) = 400
    /\ Len(move_history) = 1 => Len(Legal) = 20

\* one of the positions after the first move, with its replies
C6_Witness == Len(move_history) = 1 /\ raised = None /\ Len(Legal) > 0

other_side(t) == IF t = "w" THEN "b" ELSE "w"

\* the king of the side to move stands on a square the other side attacks
king_attacked ==
    \E k \in {find_king(Self, turn)} :
       k # <<>> /\ is_attacked(Self, k[1], k[2], other_side(turn))

\* C7: with no legal move, game_result() reports checkmate won by the side
\* not to move if the king is attacked, and stalemate, a draw without a
\* winner, if it is not; with a legal move it reports neither.
C7_MateOrStalemate ==
    \A n \in {Len(Legal)} :
       \A g \in {game_result(Self)} :
          /\ (n = 0 /\ king_attacked) =>
                g = <<TRUE, IF turn = "w" THEN "0-1" ELSE "1-0", "Checkmate",
                      IF turn = "w" THEN "black" ELSE "white">>
          /\ (n = 0 /\ ~king_attacked) =>
                g = <<TRUE, "1/2-1/2", "Stalemate", None>>
          /\ n > 0 => g[3] \notin {"Checkmate", "Stalemate"}

\* a checkmate reported
C7_Witness ==
    /\ Len(Legal) = 0 /\ king_attacked
    /\ game_result(Self)[3] = "Checkmate"

\* the pieces on the board other than the kings
other_pieces ==
    { sq \in Range(SQUARES) : board[sq[1]][sq[2]] \notin {".", "K", "k"} }

\* king against king, or against king and one knight or one bishop
bare_material ==
    \/ other_pieces = {}
    \/ /\ Cardinality(other_pieces) = 1
       /\ \A sq \in other_pieces : board[sq[1]][sq[2]] \in {"N", "n", "B", "b"}

\* the first of the terminal conditions that holds, "" when none does
first_reason ==
    IF Len(Legal) = 0 /\ king_attacked THEN "Checkmate"
    ELSE IF Len(Legal) = 0 THEN "Stalemate"
    ELSE IF halfmove >= 100 THEN draw_fifty
    ELSE IF get0(pos_history, _pos_key(Self)) >= 3 THEN draw_threefold
    ELSE IF bare_material THEN draw_material
    ELSE ""

\* C8: game_result() reports the first that holds of checkmate, stalemate,
\* fifty-move rule, threefold repetition and insufficient material, and an
\* ongoing game only when none of them holds.
C8_Priority ==
    \A g \in {game_result(Self)} :
       /\ g[3] = first_reason
       /\ g[1] = (first_reason # "")

\* the clock at a hundred in a position counted three times
C8_Witness ==
    /\ Len(Legal) > 0 /\ halfmove >= 100
    /\ get0(pos_history, _pos_key(Self)) >= 3
    /\ game_result(Self)[3] = draw_fifty

\* C9: in a position that is not checkmate, stalemate, fifty-move or
\* repetition, game_result() reports insufficient material exactly when it
\* is king against king, or against king and one knight or one bishop.
C9_InsufficientMaterial ==
    (Len(Legal) > 0 /\ halfmove < 100 /\ get0(pos_history, _pos_key(Self)) < 3)
       => (game_result(Self)[3] = draw_material <=> bare_material)

\* king and one knight or bishop against king, reported
C9_Witness ==
    /\ Cardinality(other_pieces) = 1
    /\ game_result(Self)[3] = draw_material

\* the text of each legal move as _build_san gives it
sans(legal) ==
    [i \in DOMAIN legal |->
        _build_san(Self, legal[i][1], legal[i][2], legal[i][3], legal[i][4],
                   legal[i][5], legal)]

kind(m) == lower(board[m[1]][m[2]])

\* the other legal moves of a piece of the same kind to the same square
rivals(legal, m) ==
    { j \in DOMAIN legal :
        /\ legal[j][3] = m[3] /\ legal[j][4] = m[4]
        /\ kind(legal[j]) = kind(m)
        /\ <<legal[j][1], legal[j][2]>> # <<m[1], m[2]>> }

\* the least that tells the move from its rivals: nothing, file, rank, both
disambiguator(legal, m) ==
    IF rivals(legal, m) = {} THEN <<>>
    ELSE IF \A j \in rivals(legal, m) : legal[j][2] # m[2]
    THEN <<file_chr(m[2])>>
    ELSE IF \A j \in rivals(legal, m) : legal[j][1] # m[1]
    THEN str(8 - m[1])
    ELSE <<file_chr(m[2])>> \o str(8 - m[1])

\* C10: the SAN of a legal move of a piece, castling apart, carries the least
\* disambiguator (none, else the file, else the rank, else both), and no two
\* legal moves of a position have the same SAN.
C10_SanDisambiguation ==
    \A legal \in {Legal} :
       \A san \in {sans(legal)} :
          /\ \A i \in DOMAIN legal :
                (kind(legal[i]) # "p" /\ ~is_castling(legal[i])) =>
                   san[i] = <<upper(kind(legal[i]))>>
                            \o disambiguator(legal, legal[i])
                            \o (IF board[legal[i][3]][legal[i][4]] # "."
                                THEN <<"x">> ELSE <<>>)
                            \o square_name(legal[i][3], legal[i][4])
          /\ \A i, j \in DOMAIN legal : i # j => san[i] # san[j]

\* a move that needs both the file and the rank
C10_Witness ==
    \E legal \in {Legal} :
       \E i \in DOMAIN legal :
          /\ kind(legal[i]) # "p" /\ ~is_castling(legal[i])
          /\ Len(disambiguator(legal, legal[i])) = 2

\* texts that are not long-form moves whatever the position: too short, a
\* file or a rank out of range, capital files, a separator, ranks before
\* files, a fifth character that is no promotion letter, a sixth character
MALFORMED ==
    { <<>>, <<"e">>, <<"e","2">>, <<"e","2","e">>,
      <<"i","2","e","4">>, <<"e","9","e","4">>, <<"e","0","e","4">>,
      <<"E","2","E","4">>, <<"e","2","-","e","4">>, <<"2","e","4","e">>,
      <<"e","2","e","4","x">>, <<"e","2","e","4","q","q">> }

\* the malformed texts looked at in a position: those of MALFORMED and, for
\* each legal move, its text cut to three characters, its text with one more
\* character, and its text with the promotion letter in capitals
malformed(legal) ==
    MALFORMED
    \cup { SubSeq(uci_of(legal[i]), 1, 3) : i \in DOMAIN legal }
    \cup { uci_of(legal[i]) \o <<"x">> : i \in DOMAIN legal }
    \cup { [uci_of(legal[i]) EXCEPT ![5] = upper(@)] :
             i \in { j \in DOMAIN legal : legal[j][5] # None } }

\* C11 as stated: in every position reached, apply_uci refuses every
\* malformed text (wrong length, or a character that is no file a-h, rank
\* 1-8 or promotion letter q r b n) and changes nothing.
C11_MalformedRefused ==
    \A legal \in {Legal} :
       \A u \in malformed(legal) : refused(apply_uci_on(Self, u, legal))

\* the first five characters, the fifth in lower case, are a legal promotion
promotion_prefix(u, legal) ==
    /\ Len(u) >= 5
    /\ contains(legal, move_of([SubSeq(u, 1, 5) EXCEPT ![5] = lower(@)]))

\* C11 as the code has it: a malformed text is refused and nothing changes,
\* unless its first five characters, the fifth in lower case, are a legal
\* promotion; that text is applied as the promotion.
C11_RefusedUnlessPromotionPrefix ==
    \A legal \in {Legal} :
       \A u \in malformed(legal) :
          IF promotion_prefix(u, legal)
          THEN apply_uci_on(Self, u, legal).raised = None
          ELSE refused(apply_uci_on(Self, u, legal))

\* a text of six characters stands in the history of the game
C11_Witness ==
    /\ move_history # <<>>
    /\ Len(move_history[Len(move_history)][1]) = 6
    /\ raised = None

(***************************************************************************)
(* The engine client: class UCIEngine.  Time is counted in tenths of a     *)
(* second, from the moment the current deadline was set (the code only     *)
(* compares time.time() with a deadline it has just computed).  A step of  *)
(* a thread takes no time; time passes while the caller is blocked in      *)
(* q.get on an empty queue.                                                *)
(***************************************************************************)
\* _wait("uciok", 15)
UCIOK_TIMEOUT == 150

\* _wait("readyok", 10)
READYOK_TIMEOUT == 100

\* q.get(timeout=0.2) in _wait
WAIT_POLL == 2

\* q.get(timeout=0.3) in get_best_move
BEST_POLL == 3

\* max_wait = (movetime_ms / 1000) + 10
max_wait(ms) == (ms \div 100) + 100

\* text.startswith(prefix)
startswith(s, prefix) ==
    Len(s) >= Len(prefix) /\ SubSeq(s, 1, Len(prefix)) = prefix

\* text.strip()
RECURSIVE strip(_)
strip(s) ==
    IF Len(s) = 0 THEN s
    ELSE IF s[1] = " " THEN strip(Tail(s))
    ELSE IF s[Len(s)] = " " THEN strip(SubSeq(s, 1, Len(s) - 1))
    ELSE s

\* int(text) succeeds: an optional sign and at least one digit
is_int(s) ==
    LET digits == IF Len(s) > 0 /\ s[1] \in {"-", "+"} THEN Tail(s) ELSE s
    IN  Len(digits) > 0 /\ \A i \in DOMAIN digits : isdigit(digits[i])

\* int(text) of a signed decimal
py_int(s) ==
    IF s[1] = "-" THEN 0 - int(Tail(s))
    ELSE IF s[1] = "+" THEN int(Tail(s))
    ELSE int(s)

\* the smaller of two numbers
min(a, b) == IF a < b THEN a ELSE b

\* pv_of were the whole rest of the line
pv_of_whole(tokens, i) == SubSeq(tokens, i + 1, Len(tokens))

\* tokens[i+1:i+6], i being the place of 'pv' (tokens are numbered from 1)
pv_of(tokens, i) == SubSeq(tokens, i + 1, min(i + 5, Len(tokens)))

\* _parse_info from token i on (tokens are numbered from 1)
RECURSIVE parse_from(_, _, _)
parse_from(tokens, i, info) ==
    IF i > Len(tokens) THEN info
    ELSE IF tokens[i] \in {<<"d", "e", "p", "t", "h">>, <<"n", "o", "d", "e", "s">>, <<"n", "p", "s">>} /\ i + 1 <= Len(tokens)
    THEN IF is_int(tokens[i + 1])
         THEN parse_from(tokens, i + 2,
                         put(info,
                             CASE tokens[i] = <<"d", "e", "p", "t", "h">> -> "depth"
                               [] tokens[i] = <<"n", "o", "d", "e", "s">> -> "nodes"
                               [] OTHER -> "nps",
                             py_int(tokens[i + 1])))
         ELSE parse_from(tokens, i + 1, info)
    ELSE IF tokens[i] = <<"s", "c", "o", "r", "e">> /\ i + 1 <= Len(tokens)
    THEN IF /\ tokens[i + 1] \in {<<"c", "p">>, <<"m", "a", "t", "e">>}
            /\ i + 2 <= Len(tokens)
            /\ is_int(tokens[i + 2])
         THEN parse_from(tokens, i + 3,
                         put(put(info, "score", py_int(tokens[i + 2])),
                             "score_type", tokens[i + 1]))
         ELSE parse_from(tokens, i + 1, info)
    ELSE IF tokens[i] = <<"p", "v">>
    THEN put(info, "pv", pv_of(tokens, i))
    ELSE parse_from(tokens, i + 1, info)

\* UCIEngine._parse_info(line): the dictionary of the fields read
_parse_info(line) ==
    the({ parse_from(tokens, 1, <<>>) : tokens \in {Tail(split_ws(line, <<>>))} })

\* dict.update(other)
update(dict, other) ==
    [k \in DOMAIN dict \cup DOMAIN other |->
        IF k \in DOMAIN other THEN other[k] ELSE dict[k]]

\* the tokens get_best_move does not take for a move
NO_MOVE == { <<"(", "n", "o", "n", "e", ")">>, <<"n", "u", "l", "l">>, <<"0", "0", "0", "0">> }

\* best after a line that starts with 'bestmove': <<>> is None, <<t>> is t
best_of(line) ==
    the({ IF Len(parts) > 1 /\ parts[2] \notin NO_MOVE THEN <<parts[2]>> ELSE <<>> :
          parts \in {split_ws(line, <<>>)} })

\* the alive property
alive == process # None /\ os = "running"

\* what Popen does: the process runs, or the executable is missing, may not
\* be executed, or cannot be executed for another reason
POPEN == { "ok", "FileNotFoundError", "PermissionError", "OSError" }

\* the exception start raises when Popen raises exc
popen_error(exc) ==
    CASE exc = "FileNotFoundError" -> "RuntimeError: Engine not found"
      [] exc = "PermissionError" -> "RuntimeError: Permission denied"
      [] OTHER -> exc

\* the exception start raises when _wait(kw) returns False
no_token(kw) ==
    IF kw = <<"u", "c", "i", "o", "k">> THEN "RuntimeError: No 'uciok'" ELSE "RuntimeError: No 'readyok'"

\* the lines the engine process may write
L_UCIOK == <<"u", "c", "i", "o", "k">>

L_READYOK == <<"r", "e", "a", "d", "y", "o", "k">>

L_BLANK == <<>>

L_INFO == <<"i", "n", "f", "o", " ", "d", "e", "p", "t", "h", " ", "1", " ", "s", "c", "o", "r", "e", " ", "c", "p", " ", "2", "0">>

L_BEST == <<"b", "e", "s", "t", "m", "o", "v", "e", " ", "e", "2", "e", "4">>

L_BEST_BARE == <<"b", "e", "s", "t", "m", "o", "v", "e">>

L_BEST_NONE == <<"b", "e", "s", "t", "m", "o", "v", "e", " ", "(", "n", "o", "n", "e", ")">>

L_BEST_NULL == <<"b", "e", "s", "t", "m", "o", "v", "e", " ", "n", "u", "l", "l">>

L_BEST_ZERO == <<"b", "e", "s", "t", "m", "o", "v", "e", " ", "0", "0", "0", "0">>

ENGINE_LINES ==
    { L_UCIOK, L_READYOK, L_BLANK, L_INFO, L_BEST, L_BEST_BARE,
      L_BEST_NONE, L_BEST_NULL, L_BEST_ZERO }

\* lines of a search: 'info depth 5 seldepth 7' and 'info nodes 90 nps 1000'
L_DEPTH == <<"i", "n", "f", "o", " ", "d", "e", "p", "t", "h", " ", "5", " ", "s", "e", "l", "d", "e", "p", "t", "h", " ", "7">>

L_NODES == <<"i", "n", "f", "o", " ", "n", "o", "d", "e", "s", " ", "9", "0", " ", "n", "p", "s", " ", "1", "0", "0", "0">>

\* what the engine writes during a search
SEARCH_LINES == { L_INFO, L_DEPTH, L_NODES, L_BLANK, L_BEST }

\* the move the engine finds in the position of a search: e2e4 in the first,
\* and in turn e7e5 and e2e4 in the positions that follow
L_BEST_REPLY == <<"b", "e", "s", "t", "m", "o", "v", "e", " ", "e", "7", "e", "5">>

best_for(search) == IF search % 2 = 1 THEN L_BEST ELSE L_BEST_REPLY

ANSWER_LINES == { L_BEST, L_BEST_REPLY }

\* _parse_info of each line the engine may write, computed once
info_of ==
    [line \in ENGINE_LINES \cup SEARCH_LINES \cup ANSWER_LINES |-> _parse_info(line)]

\* best_of of each line the engine may write, computed once
best_token ==
    [line \in ENGINE_LINES \cup SEARCH_LINES \cup ANSWER_LINES |-> best_of(line)]

\* the search times the callers pass, in milliseconds
MOVETIMES == { 1000 }

\* lines the queue holds at most
MaxQ == 1

\* lines the engine writes at most in a tenth of a second
MaxBurst == 1

\* calls of get_best_move on one client
MaxSearches == 1

\* calls of get_best_move with a callback on one client
MaxInfoSearches == 2

\* info lines the engine writes at most during one search with a callback
MaxTold == 3

\* where the calling thread stands: each _send is a test of the process and
\* then a write, and each read of self.process is a step of its own
SEND_PCS == { "send_uci", "send_isready", "send_position", "send_go" }

WRITE_PCS == { "write_uci", "write_isready", "write_position", "write_go" }

WAIT_PCS == { "wait_uciok", "wait_readyok" }

BLOCKED_PCS == WAIT_PCS \cup { "loop" }

write_of(p) ==
    CASE p = "send_uci" -> "write_uci"
      [] p = "send_isready" -> "write_isready"
      [] p = "send_position" -> "write_position"
      [] p = "send_go" -> "write_go"

\* the command a write puts on the input pipe
cmd_of(p) ==
    CASE p = "write_uci" -> <<"u", "c", "i">>
      [] p = "write_isready" -> <<"i", "s", "r", "e", "a", "d", "y">>
      [] p = "write_position" -> <<"p", "o", "s", "i", "t", "i", "o", "n">>
      [] p = "write_go" -> <<"g", "o">>

\* the statement after a _send
after_send(p) ==
    CASE p \in {"send_uci", "write_uci"} -> "wait_uciok"
      [] p \in {"send_isready", "write_isready"} -> "wait_readyok"
      [] p \in {"send_position", "write_position"} -> "send_go"
      [] p \in {"send_go", "write_go"} -> "loop"

\* trace holds what start() has done so far: the commands it has passed to
\* _send and the lines it has taken from the queue as the awaited token
sent(cmd) == [dir |-> "sent", text |-> cmd]

read(line) == [dir |-> "read", text |-> line]

\* the public method a position belongs to
op_of(p) ==
    IF p \in {"alive_poll", "send_position", "write_position", "send_go",
              "write_go", "loop", "loop_poll"}
    THEN "get_best_move" ELSE "start"

\* kw_of were 'readyok' awaited at both steps
kw_of_readyok(p) == L_READYOK

\* the keyword a _wait looks for
kw_of(p) == IF p = "wait_uciok" THEN L_UCIOK ELSE L_READYOK

\* poll_of were q.get given the timeout of the handshake
poll_of_long(p) == UCIOK_TIMEOUT

\* the poll of the loop at p
poll_of(p) == IF p = "loop" THEN BEST_POLL ELSE WAIT_POLL

\* go to statement p; entering a loop sets its deadline and starts q.get
Goto(p) ==
    /\ pc' = p
    /\ IF p \in BLOCKED_PCS
       THEN /\ now' = 0
            /\ end' = CASE p = "wait_uciok" -> UCIOK_TIMEOUT
                        [] p = "wait_readyok" -> READYOK_TIMEOUT
                        [] OTHER -> max_wait(movetime_ms)
            /\ wake' = poll_of(p)
       ELSE UNCHANGED <<now, end, wake>>

\* the call in progress ends: it raises exc or returns ret
Ends(exc, ret, why, line) ==
    /\ call' = [op |-> op_of(pc), raised |-> exc, ret |-> ret,
                why |-> why, line |-> line]
    /\ pc' = "idle"
    /\ UNCHANGED <<now, end, wake>>

\* the loop at pc goes round: the deadline is tested, and q.get starts again
\* or the loop is left
Again(left) ==
    IF now < end
    THEN /\ wake' = now + poll_of(pc)
         /\ UNCHANGED <<pc, call, now, end>>
    ELSE left

\* start raises because _wait returned False
StartFails(why) == Ends(no_token(kw_of(pc)), <<>>, why, <<>>)

\* get_best_move returns best
Returns(best, why, line) == Ends(None, best, why, line)

\* start(), up to the first _send
Start ==
    /\ pc = "idle" /\ os = "none" /\ call.op # "start"
    /\ \E r \in POPEN :
          IF r = "ok"
          THEN /\ process' = "Popen"
               /\ os' = "running"
               /\ pc' = "send_uci"
               /\ UNCHANGED call
          ELSE /\ call' = [op |-> "start", raised |-> popen_error(r),
                           ret |-> <<>>, why |-> r, line |-> <<>>]
               /\ UNCHANGED <<process, os, pc>>
    /\ UNCHANGED <<ready, q, last_info, trace, burst, now, end, wake,
                   movetime_ms, searches, stop_pc, stop_call>>
    /\ UNCHANGED <<bvars, gvars, avars, hvars, svars, lvars>>

\* _send is called: the test "self.process and self.process.poll() is None"
SendTest ==
    /\ pc \in SEND_PCS
    /\ IF alive
       THEN pc' = write_of(pc) /\ UNCHANGED <<now, end, wake>>
       ELSE Goto(after_send(pc))
    /\ trace' = IF op_of(pc) = "start"
                THEN Append(trace, sent(cmd_of(write_of(pc)))) ELSE trace
    /\ UNCHANGED <<process, ready, q, last_info, os, burst,
                   movetime_ms, call, searches, stop_pc, stop_call>>
    /\ UNCHANGED <<bvars, gvars, avars, hvars, svars, lvars>>

\* _send: self.process.stdin.write and flush.  self.process is read again:
\* None has no stdin.  A process that has exited breaks the pipe, which
\* _send passes over.
SendWrite ==
    /\ pc \in WRITE_PCS
    /\ IF process = None
       THEN Ends("AttributeError", <<>>, "send", <<>>)
       ELSE Goto(after_send(pc)) /\ UNCHANGED call
    /\ pending' = IF pc = "write_go" /\ process # None /\ os = "running"
                  THEN Append(pending, searches) ELSE pending
    /\ UNCHANGED <<process, ready, q, last_info, os, trace, burst,
                   movetime_ms, searches, stop_pc, stop_call, on_info, told>>
    /\ UNCHANGED <<bvars, gvars, avars, svars, lvars>>

\* _wait: q.get returns a line
WaitLine ==
    /\ pc \in WAIT_PCS /\ q # <<>>
    /\ q' = Tail(q)
    /\ \E line \in {Head(q)}, kw \in {kw_of(pc)} :
          IF line # <<>> /\ (strip(line) = kw \/ startswith(line, kw))
          THEN /\ trace' = Append(trace, read(line))
               /\ IF pc = "wait_uciok"
                  THEN /\ ready' = TRUE
                       /\ pc' = "send_isready"
                       /\ UNCHANGED <<call, now, end, wake>>
                  ELSE /\ Ends(None, <<>>, "readyok", line)
                       /\ UNCHANGED ready
          ELSE /\ Again(StartFails("timeout"))
               /\ UNCHANGED <<trace, ready>>
    /\ UNCHANGED <<process, last_info, os, burst, movetime_ms, searches,
                   stop_pc, stop_call>>
    /\ UNCHANGED <<bvars, gvars, avars, hvars, svars, lvars>>

\* _wait: q.get raises queue.Empty after its timeout
WaitEmpty ==
    /\ pc \in WAIT_PCS /\ q = <<>> /\ now >= wake
    /\ IF process # None /\ os = "exited"
       THEN StartFails("exited")
       ELSE Again(StartFails("timeout"))
    /\ UNCHANGED <<process, ready, q, last_info, os, trace, burst,
                   movetime_ms, searches, stop_pc, stop_call>>
    /\ UNCHANGED <<bvars, gvars, avars, hvars, svars, lvars>>

\* get_best_move were it to keep last_info from one search to the next
emptied_kept(info) == info

\* self.last_info={}
emptied(info) == <<>>

\* get_best_move(moves_str, movetime_ms, on_info), the tests 'not self.ready'
\* and, in alive, 'self.process is not None'; callback tells whether on_info
\* is given
get_best_move(callback) ==
    /\ pc = "idle"
    /\ searches' = searches + 1
    /\ \E ms \in MOVETIMES :
          IF ~ready \/ process = None
          THEN /\ call' = [op |-> "get_best_move", raised |-> None,
                           ret |-> <<>>, why |-> "not ready", line |-> <<>>]
               /\ UNCHANGED <<movetime_ms, pc, on_info>>
          ELSE /\ movetime_ms' = ms
               /\ pc' = "alive_poll"
               /\ call' = NoCall
               /\ on_info' = callback
    /\ UNCHANGED <<process, ready, q, last_info, os, trace, burst, now, end,
                   wake, stop_pc, stop_call, told, pending>>
    /\ UNCHANGED <<bvars, gvars, avars, svars, lvars>>

\* alive, 'self.process.poll() is None': self.process is read again, and
\* None has no poll.  With a running process get_best_move goes on to the
\* first _send: _drain() and self.last_info={}
AlivePoll ==
    /\ pc = "alive_poll"
    /\ IF process = None
       THEN Ends("AttributeError", <<>>, "alive", <<>>)
            /\ UNCHANGED <<q, last_info, told>>
       ELSE IF os # "running"
       THEN Returns(<<>>, "not ready", <<>>)
            /\ UNCHANGED <<q, last_info, told>>
       ELSE /\ q' = <<>>
            /\ last_info' = emptied(last_info)
            /\ told' = <<>>
            /\ pc' = "send_position"
            /\ UNCHANGED <<call, now, end, wake>>
    /\ UNCHANGED <<process, ready, os, trace, burst, movetime_ms, searches,
                   stop_pc, stop_call, on_info, pending>>
    /\ UNCHANGED <<bvars, gvars, avars, svars, lvars>>

\* get_best_move(moves_str, movetime_ms): on_info is None
GetBestMove ==
    /\ searches < MaxSearches
    /\ get_best_move(FALSE)

\* get_best_move(mvs, movetime, on_info=on_info)
GetBestMoveOnInfo ==
    /\ searches < MaxInfoSearches
    /\ get_best_move(TRUE)

\* the loop of get_best_move: q.get returns a line
LoopLine ==
    /\ pc = "loop" /\ q # <<>>
    /\ q' = Tail(q)
    /\ \E line \in {Head(q)} :
          IF line = <<>>
          THEN Again(Returns(<<>>, "timeout", <<>>)) /\ UNCHANGED <<last_info, told>>
          ELSE IF startswith(line, <<"i", "n", "f", "o", " ">>)
          THEN /\ last_info' = update(last_info, info_of[line])
               /\ told' = IF on_info THEN Append(told, info_of[line]) ELSE told
               /\ Again(Returns(<<>>, "timeout", <<>>))
          ELSE IF startswith(line, <<"b", "e", "s", "t", "m", "o", "v", "e">>)
          THEN Returns(best_token[line], "bestmove", line) /\ UNCHANGED <<last_info, told>>
          ELSE Again(Returns(<<>>, "timeout", <<>>)) /\ UNCHANGED <<last_info, told>>
    /\ UNCHANGED <<process, ready, os, trace, burst, movetime_ms, searches,
                   stop_pc, stop_call, on_info, pending>>
    /\ UNCHANGED <<bvars, gvars, avars, svars, lvars>>

\* the loop of get_best_move: q.get raises queue.Empty after its timeout,
\* and the handler tests 'self.process'
LoopEmpty ==
    /\ pc = "loop" /\ q = <<>> /\ now >= wake
    /\ IF process # None
       THEN pc' = "loop_poll" /\ UNCHANGED <<call, now, end, wake>>
       ELSE Again(Returns(<<>>, "timeout", <<>>))
    /\ UNCHANGED <<process, ready, q, last_info, os, trace, burst,
                   movetime_ms, searches, stop_pc, stop_call>>
    /\ UNCHANGED <<bvars, gvars, avars, hvars, svars, lvars>>

\* the handler of queue.Empty, 'self.process.poll() is not None':
\* self.process is read again, and None has no poll.  A process that has
\* exited ends the loop; otherwise the loop goes round
LoopPoll ==
    /\ pc = "loop_poll"
    /\ IF process = None
       THEN Ends("AttributeError", <<>>, "poll", <<>>)
       ELSE IF os = "exited"
       THEN Returns(<<>>, "exited", <<>>)
       ELSE IF now < end
       THEN /\ pc' = "loop"
            /\ wake' = now + poll_of("loop")
            /\ UNCHANGED <<call, now, end>>
       ELSE Returns(<<>>, "timeout", <<>>)
    /\ UNCHANGED <<process, ready, q, last_info, os, trace, burst,
                   movetime_ms, searches, stop_pc, stop_call>>
    /\ UNCHANGED <<bvars, gvars, avars, hvars, svars, lvars>>

\* a tenth of a second passes while the caller waits in q.get
Tick ==
    /\ pc \in BLOCKED_PCS /\ q = <<>> /\ now < wake
    /\ now' = now + 1
    /\ burst' = 0
    /\ UNCHANGED <<process, ready, q, last_info, os, trace, end, wake,
                   movetime_ms, pc, call, searches, stop_pc, stop_call>>
    /\ UNCHANGED <<bvars, gvars, avars, hvars, svars, lvars>>

\* the engine writes a line and _reader puts it on the queue
Emit ==
    /\ os = "running" /\ Len(q) < MaxQ /\ burst < MaxBurst
    /\ \E line \in ENGINE_LINES : q' = Append(q, line)
    /\ burst' = burst + 1
    /\ UNCHANGED <<process, ready, last_info, os, trace, now, end, wake,
                   movetime_ms, pc, call, searches, stop_pc, stop_call>>
    /\ UNCHANGED <<bvars, gvars, avars, hvars, svars, lvars>>

\* line.startswith('info ')
is_info(line) == startswith(line, <<"i", "n", "f", "o", " ">>)

\* the engine writes a line of its search and _reader puts it on the queue
Inform ==
    /\ os = "running" /\ Len(q) < MaxQ /\ burst < MaxBurst
    /\ \E line \in SEARCH_LINES :
          /\ is_info(line) => Len(told) + Len(SelectSeq(q, is_info)) < MaxTold
          /\ q' = Append(q, line)
    /\ burst' = burst + 1
    /\ UNCHANGED <<process, ready, last_info, os, trace, now, end, wake,
                   movetime_ms, pc, call, searches, stop_pc, stop_call>>
    /\ UNCHANGED <<bvars, gvars, avars, hvars, svars, lvars>>

\* the engine ends the oldest search it was asked for and writes its move
Answer ==
    /\ os = "running" /\ pending # <<>> /\ Len(q) < MaxQ
    /\ q' = Append(q, best_for(Head(pending)))
    /\ pending' = Tail(pending)
    /\ UNCHANGED <<process, ready, last_info, os, trace, burst, now, end, wake,
                   movetime_ms, pc, call, searches, stop_pc, stop_call,
                   on_info, told>>
    /\ UNCHANGED <<bvars, gvars, avars, svars, lvars>>

\* the engine process exits
Exit ==
    /\ os = "running"
    /\ os' = "exited"
    /\ UNCHANGED <<process, ready, q, last_info, trace, burst, now, end, wake,
                   movetime_ms, pc, call, searches, stop_pc, stop_call>>
    /\ UNCHANGED <<bvars, gvars, avars, hvars, svars, lvars>>

\* what may go wrong between try and except in stop: nothing; the input pipe
\* is closed (_send passes over it); terminate fails; the process is still
\* there after wait(timeout=3)
SHUTDOWN == { "clean", "BrokenPipeError", "OSError", "TimeoutExpired" }

\* the exceptions that are subclasses of Exception
EXCEPTIONS ==
    { "BrokenPipeError", "OSError", "TimeoutExpired", "AttributeError",
      "ValueError", "RuntimeError" }

\* "except Exception: pass": the exception that leaves the try statement
except_Exception(exc) == IF exc \in EXCEPTIONS THEN None ELSE exc

\* the state of the client, as the callers see it
client_state ==
    IF pc \in {"send_uci", "write_uci", "wait_uciok",
               "send_isready", "write_isready", "wait_readyok"}
    THEN "handshaking"
    ELSE IF pc # "idle" THEN "searching"
    ELSE IF process = None
    THEN (IF os = "none" THEN "not started" ELSE "stopped")
    ELSE IF ready THEN "ready"
    ELSE "failed"

\* stop on a client that has no process: nothing is done
StopNothing ==
    /\ stop_pc = "idle" /\ process = None
    /\ stop_call' = [returned |-> TRUE, raised |-> None,
                     during |-> client_state]
    /\ UNCHANGED <<process, ready, q, last_info, os, trace, burst, now, end,
                   wake, movetime_ms, pc, call, searches, stop_pc>>
    /\ UNCHANGED <<bvars, gvars, avars, hvars, svars, lvars>>

\* stop: the try statement
StopTry ==
    /\ stop_pc = "idle" /\ process # None
    /\ \E f \in SHUTDOWN :
          /\ os' = IF f \in {"OSError", "TimeoutExpired"} THEN os ELSE "exited"
          /\ stop_call' = [returned |-> FALSE,
                           raised |-> except_Exception(
                                        IF f \in {"OSError", "TimeoutExpired"}
                                        THEN f ELSE None),
                           during |-> client_state]
    /\ stop_pc' = "after try"
    /\ UNCHANGED <<process, ready, q, last_info, trace, burst, now, end, wake,
                   movetime_ms, pc, call, searches>>
    /\ UNCHANGED <<bvars, gvars, avars, hvars, svars, lvars>>

\* stop: after the try statement
StopClear ==
    /\ stop_pc = "after try"
    /\ stop_pc' = "idle"
    /\ IF stop_call.raised = None
       THEN /\ process' = None
            /\ ready' = FALSE
            /\ stop_call' = [stop_call EXCEPT !.returned = TRUE]
       ELSE UNCHANGED <<process, ready, stop_call>>
    /\ UNCHANGED <<q, last_info, os, trace, burst, now, end, wake,
                   movetime_ms, pc, call, searches>>
    /\ UNCHANGED <<bvars, gvars, avars, hvars, svars, lvars>>

EngineNext ==
    \/ Start \/ SendTest \/ SendWrite \/ WaitLine \/ WaitEmpty
    \/ GetBestMove \/ AlivePoll \/ LoopLine \/ LoopEmpty \/ LoopPoll
    \/ Tick \/ Emit \/ Exit
    \/ StopNothing \/ StopTry \/ StopClear

\* a client over its life, and the threads that use it
EngineSpec == Init /\ [][EngineNext]_vars

\* a client from its construction to the end of start()
HandshakeNext ==
    \/ Start \/ SendTest \/ SendWrite \/ WaitLine \/ WaitEmpty
    \/ Tick \/ Emit \/ Exit
    \/ StopNothing \/ StopTry \/ StopClear

\* the thread in start() runs when it can, and time does not stand still
HandshakeSpec ==
    /\ Init
    /\ [][HandshakeNext]_vars
    /\ WF_vars(SendTest) /\ WF_vars(SendWrite)
    /\ WF_vars(WaitLine) /\ WF_vars(WaitEmpty)
    /\ WF_vars(Tick)

\* a client after start() has returned: 'readyok' came a tenth of a second
\* after 'isready' was sent
Started ==
    /\ NewBoard
    /\ ChessGUI
    /\ NoEval
    /\ NoParse
    /\ NoSearch
    /\ NoGame
    /\ LoadingScreen
    /\ process = "Popen"
    /\ ready = TRUE
    /\ q = <<>>
    /\ last_info = <<>>
    /\ os = "running"
    /\ trace = << sent(<<"u", "c", "i">>), read(L_UCIOK),
                  sent(<<"i", "s", "r", "e", "a", "d", "y">>), read(L_READYOK) >>
    /\ burst = 1
    /\ now = 1
    /\ end = READYOK_TIMEOUT
    /\ wake = WAIT_POLL
    /\ movetime_ms = 0
    /\ pc = "idle"
    /\ call = [op |-> "start", raised |-> None, ret |-> <<>>,
               why |-> "readyok", line |-> L_READYOK]
    /\ searches = 0
    /\ stop_pc = "idle"
    /\ stop_call = [returned |-> FALSE, raised |-> None, during |-> None]

\* a started client in use
SearchNext ==
    \/ GetBestMove \/ AlivePoll \/ SendTest \/ SendWrite
    \/ LoopLine \/ LoopEmpty \/ LoopPoll
    \/ Tick \/ Emit \/ Exit
    \/ StopNothing \/ StopTry \/ StopClear

\* a started client searching with a callback
InfoNext ==
    \/ GetBestMoveOnInfo \/ AlivePoll \/ SendTest \/ SendWrite
    \/ LoopLine \/ LoopEmpty \/ LoopPoll
    \/ Tick \/ Inform \/ Exit

InfoSpec == Started /\ [][InfoNext]_vars

\* a started client asked for one search after the other, the engine
\* answering each 'go' with one bestmove line, at any time
AnswerNext ==
    \/ GetBestMoveOnInfo \/ AlivePoll \/ SendTest \/ SendWrite
    \/ LoopLine \/ LoopEmpty \/ LoopPoll
    \/ Tick \/ Answer \/ Exit

AnswerSpec == Started /\ [][AnswerNext]_vars

\* the thread in get_best_move runs when it can, and time does not stand
\* still
SearchSpec ==
    /\ Started
    /\ [][SearchNext]_vars
    /\ WF_vars(SendTest) /\ WF_vars(SendWrite)
    /\ WF_vars(LoopLine) /\ WF_vars(LoopEmpty)
    /\ WF_vars(AlivePoll) /\ WF_vars(LoopPoll)
    /\ WF_vars(Tick)

(***************************************************************************)
(* Properties of the engine client                                         *)
(***************************************************************************)
\* the move each 'bestmove' line of ENGINE_LINES carries: none on the line
\* without a token and on the lines with '(none)', 'null' and '0000'
carried ==
    [line \in {L_BEST, L_BEST_BARE, L_BEST_NONE, L_BEST_NULL, L_BEST_ZERO} |->
        IF line = L_BEST THEN << <<"e", "2", "e", "4">> >> ELSE <<>>]

\* get_best_move has returned what the claim says: the token of the
\* 'bestmove' line it read if that is a move, none in every other outcome
token_or_none ==
    /\ call.raised = None
    /\ call.ret = IF call.why = "bestmove" THEN carried[call.line] ELSE <<>>

\* C12 as stated: get_best_move never raises; it returns the move token of
\* the engine's bestmove line when that is a usable move, and none when the
\* process exits mid-search, the deadline elapses, or the line carries no
\* token or one of '(none)', 'null', '0000'.
C12_NeverRaisesTokenOrNone ==
    call.op = "get_best_move" => token_or_none

\* C12 as the code has it: get_best_move returns the token or none, unless
\* stop() clears self.process between two reads of it (the test and the
\* write of a _send, the test and the poll of alive or of the loop): then it
\* raises AttributeError.
C12_TokenOrNoneUnlessStopped ==
    call.op = "get_best_move" =>
       \/ token_or_none
       \/ /\ call.raised = "AttributeError"
          /\ process = None
          /\ stop_call.returned

\* get_best_move has raised
C12_Witness ==
    /\ call.op = "get_best_move"
    /\ call.raised = "AttributeError"
    /\ pc = "idle"

\* start() has read 'uciok'
uciok_read == \E j \in DOMAIN trace : trace[j] = read(L_UCIOK)

\* the handshake so far is in order: 'uci' is sent before anything else is
\* done, 'isready' is sent after a 'uciok' line was read, and start() has
\* returned normally only if a 'readyok' line was read after 'isready' was
\* sent
in_order ==
    /\ trace # <<>> => trace[1] = sent(<<"u", "c", "i">>)
    /\ \A i \in DOMAIN trace :
          trace[i] = sent(<<"i", "s", "r", "e", "a", "d", "y">>) =>
             \E j \in 1..(i - 1) : trace[j] = read(L_UCIOK)
    /\ (pc = "idle" /\ call.op = "start" /\ call.raised = None) =>
          \E i, j \in DOMAIN trace :
             /\ i < j
             /\ trace[i] = sent(<<"i", "s", "r", "e", "a", "d", "y">>)
             /\ trace[j] = read(L_READYOK)

\* the wait that start() is in, or was in when it ended
bounded_wait == IF uciok_read THEN READYOK_TIMEOUT ELSE UCIOK_TIMEOUT

\* a wait lasts no longer than its bound and one poll; start() raises
\* before the bound only if the process has exited, and at the bound it
\* raises the error of the step it is in
in_time ==
    /\ pc \in WAIT_PCS => now < bounded_wait + WAIT_POLL
    /\ (pc = "idle" /\ call.op = "start" /\ call.why = "exited") =>
          os = "exited"
    /\ (pc = "idle" /\ call.op = "start" /\ call.why = "timeout") =>
          /\ now >= bounded_wait
          /\ now < bounded_wait + WAIT_POLL
          /\ call.raised = IF uciok_read THEN "RuntimeError: No 'readyok'"
                           ELSE "RuntimeError: No 'uciok'"

\* C13: start() sends 'uci' first, sends 'isready' only after a 'uciok'
\* line has been consumed, and returns normally only after a 'readyok' line
\* has been consumed following 'isready'; a wait for a token ends: if the
\* process stays alive and the token never comes, start() raises the
\* handshake error of that step once 15 seconds (uciok) or 10 seconds
\* (readyok) have elapsed, and no later than one poll after.
C13_HandshakeInOrder ==
    /\ [](in_order /\ in_time)
    /\ (pc = "wait_uciok") ~> (pc # "wait_uciok")
    /\ (pc = "wait_readyok") ~> (pc = "idle")

\* start() has raised after fifteen seconds of silence of a live engine
C13_Witness ==
    /\ pc = "idle" /\ call.op = "start" /\ call.why = "timeout"
    /\ call.raised = "RuntimeError: No 'uciok'"
    /\ alive
    /\ trace = << sent(<<"u", "c", "i">>) >>
    /\ now = UCIOK_TIMEOUT

\* start() has raised
start_failed == pc = "idle" /\ call.op = "start" /\ call.raised # None

\* the causes of a startup failure that are to be told apart
CAUSES ==
    { "executable", "uciok timeout", "uciok exited",
      "readyok timeout", "readyok exited" }

\* the cause of the failure start() has raised for
cause ==
    CASE call.why \in POPEN -> "executable"
      [] call.why = "timeout" ->
            IF uciok_read THEN "readyok timeout" ELSE "uciok timeout"
      [] call.why = "exited" ->
            IF uciok_read THEN "readyok exited" ELSE "uciok exited"
      [] OTHER -> "stopped"

\* the outcomes start() reports a cause with (lines 690-702)
reported(c) ==
    CASE c = "executable" -> { popen_error(r) : r \in POPEN \ {"ok"} }
      [] c \in {"uciok timeout", "uciok exited"} -> { no_token(L_UCIOK) }
      [] c \in {"readyok timeout", "readyok exited"} -> { no_token(L_READYOK) }
      [] OTHER -> { "AttributeError" }

\* the step of start() a cause belongs to
step_of(c) ==
    CASE c = "executable" -> "Popen"
      [] c \in {"uciok timeout", "uciok exited"} -> "uciok"
      [] c \in {"readyok timeout", "readyok exited"} -> "readyok"
      [] OTHER -> "send"

\* C14 as stated: the outcome of a startup failure identifies its cause:
\* executable not found or not invocable, no 'uciok' and no 'readyok' are
\* told apart, and a handshake timeout of a live process is reported with
\* an outcome the exit of the process is never reported with.
C14_FailureIdentifiesCause ==
    start_failed =>
       /\ call.raised \in reported(cause)
       /\ \A c \in CAUSES \ {cause} : call.raised \notin reported(c)

\* C14 as the code has it: the outcome of a startup failure identifies the
\* step that failed (Popen, the wait for 'uciok', the wait for 'readyok'),
\* and not whether the wait ended by timeout or by the exit of the process.
C14_FailureIdentifiesStep ==
    start_failed =>
       /\ call.raised \in reported(cause)
       /\ \A c \in CAUSES :
             step_of(c) # step_of(cause) => call.raised \notin reported(c)

\* start() has raised because the process exited before 'uciok'
C14_Witness ==
    /\ start_failed
    /\ call.why = "exited" /\ os = "exited"
    /\ call.raised = "RuntimeError: No 'uciok'"

\* a step in which stop() returns
StopReturns == StopNothing \/ StopClear

\* C15 as stated: stop() never raises, whatever fails during shutdown and
\* in whatever state it is called; when it returns, alive is false and
\* ready is false; and alive is true only if the process handle exists and
\* the process has not exited.
C15_StopNeverRaisesAndClears ==
    [][/\ stop_call'.raised = None
       /\ StopReturns => (~alive' /\ ~ready')
       /\ alive' => (process' # None /\ os' # "exited")]_vars

\* C15 as the code has it: stop() never raises and alive is false when it
\* returns; ready is false when it returns if it found a process handle.  A
\* stop() that finds none leaves ready as it is: true after start() went on
\* past 'uciok' on a client that an earlier stop() had cleared.
C15_StopNeverRaisesAndKills ==
    [][/\ stop_call'.raised = None
       /\ StopReturns => ~alive'
       /\ StopClear => ~ready'
       /\ (StopNothing /\ ready') => (ready /\ stop_call.returned)
       /\ alive' => (process' # None /\ os' # "exited")]_vars

\* stop() has returned on a stopped client and ready is true
C15_Witness ==
    /\ stop_pc = "idle"
    /\ stop_call.returned /\ stop_call.during = "stopped"
    /\ ready /\ ~alive

\* the overall deadline of the search in progress, counted from the start of
\* its loop: the search time and ten seconds
deadline == (movetime_ms \div 100) + 100

\* get_best_move has gone through its loop and returned
searched ==
    /\ pc = "idle" /\ call.op = "get_best_move"
    /\ call.why \in {"bestmove", "timeout", "exited"}

\* C16: get_best_move always terminates, whatever the engine emits, and
\* returns no later than its overall deadline (search time plus ten
\* seconds) plus one poll interval: in its loop every q.get ends within one
\* poll interval and starts before the deadline.
C16_SearchTerminates ==
    /\ [](pc = "loop" => (now <= wake /\ wake < deadline + BEST_POLL))
    /\ [](searched => now < deadline + BEST_POLL)
    /\ (pc # "idle") ~> (pc = "idle")

\* get_best_move has returned at the last moment: the engine was alive and
\* wrote info lines, the last of them just before the deadline
C16_Witness ==
    /\ searched /\ call.why = "timeout"
    /\ alive
    /\ last_info # <<>>
    /\ now = deadline + BEST_POLL - 1

(***************************************************************************)
(* The window and the threads that touch its Board (src/gui.py).  Tk's     *)
(* main loop runs one handler at a time (a click, Start, New Game, a       *)
(* callback scheduled with root.after); _engine_move_thread and _game_loop *)
(* run beside it.  A handler is cut into steps at every point where        *)
(* another thread can run in between: taking the lock, the test of the     *)
(* turn, the call of apply_uci or reset and its return.  A Board method    *)
(* that changes the Board is in progress from its call to its return.      *)
(* One thread of each kind is followed, and the mode and the colour are    *)
(* selected before the first game.                                         *)
(***************************************************************************)
\* presses of Start and New Game that are followed
MaxGames == 3

\* moves of one game that are followed
MaxGuiPly == 2

MODES == {"human_vs_engine", "engine_vs_engine"}

COLORS == {"white", "black"}

\* the squares the user clicks give one of these moves
CLICKS == { <<"e", "2", "e", "4">>, <<"g", "1", "f", "3">>, <<"e", "7", "e", "5">> }

\* what get_best_move hands back: a token of the engine, legal or not
REPLIES == { <<"e", "7", "e", "5">>, <<"e", "2", "e", "4">>, <<"e", "2", "e", "5">> }

\* the colour the user plays, as Board.turn writes it
human_turn == IF player_color = "white" THEN "w" ELSE "b"

\* engine_turn of _do_engine_move
engine_turn == IF player_color = "white" THEN "b" ELSE "w"

\* the side a thread moves for in human_vs_engine mode
own(t) == IF t = "tk" THEN human_turn ELSE engine_turn

\* turn_ok of the click handler, and the test of _do_engine_move before the
\* search
turn_ok(t) == turn = own(t)

\* a handler that applies a move whatever the turn is
still_ok_unchecked(t) == TRUE

\* still_ok of the click handler, and the test of _do_engine_move after the
\* search: made with the lock held, just before apply_uci
still_ok(t) == turn = own(t)

\* the steps at which a Board method that changes the Board is in progress
MUTATING == {"start_1149", "new_1246", "click_apply", "engine_apply", "loop_apply"}

mutating(t) == at[t] \in MUTATING

\* the lock object self.board_lock refers to is free
free == board_lock \notin locked

\* 'with self.board_lock:' is entered by thread t
Acquire(t) ==
    /\ free
    /\ locked' = locked \cup {board_lock}
    /\ holds' = [holds EXCEPT ![t] = board_lock]

\* the 'with' block of thread t is left
Release(t) ==
    /\ locked' = locked \ {holds[t]}
    /\ holds' = [holds EXCEPT ![t] = 0]

\* thread t goes to step p
At(t, p) == at' = [at EXCEPT ![t] = p]

\* thread t leaves its handler
Leaves(t) ==
    /\ At(t, "idle")
    /\ arg' = [arg EXCEPT ![t] = <<>>]
    /\ seen' = [seen EXCEPT ![t] = None]

\* a Board method that changes the Board is called by thread t
Calls(t, p) ==
    /\ At(t, p)
    /\ base' = [base EXCEPT ![t] = Self]

\* Board.reset returns in thread t
ResetReturns(t) ==
    /\ Assigned(outcome(None, Board, <<>>))
    /\ base' = [base EXCEPT ![t] = None]
    /\ undisturbed' = [x \in THREADS |-> holds[x] = 0]

\* apply_uci has changed the Board in thread t, which leaves its 'with' if it
\* is in one: a thread inside a 'with' is disturbed if t held no Lock or was
\* disturbed itself
Disturbs(t) ==
    undisturbed' = [x \in THREADS |->
                      \/ x = t
                      \/ holds[x] = 0
                      \/ undisturbed[x] /\ undisturbed[t] /\ holds[t] # 0]

\* the outcomes of the apply_uci called by thread t: of the Board it found
\* and, if another thread changed the Board meanwhile, of the Board it
\* finds now
applied(t) == { apply_uci(b, arg[t]) : b \in {base[t], Self} }

\* the flags _end_game, _stop_game and _new_game clear
EndGame ==
    /\ game_running' = FALSE
    /\ _engine_thinking' = FALSE

\* self.db.save_game(...) is called by the method named
save_game(by) == saved' = Append(saved, by)

\* _end_game: the flags, and the game is recorded whatever the flags were
_end_game ==
    /\ EndGame
    /\ save_game("_end_game")
    /\ UNCHANGED <<game_paused, was_paused>>

\* the Tk event loop runs: mainloop, or the wait_window of the Stop dialog
in_event_loop == at["tk"] \in {"idle", "stop_1211"}

\* _start_engine_turn: a new _engine_move_thread, if a game is running
start_engine_turn ==
    IF game_running
    THEN /\ _engine_thinking' = TRUE
         /\ IF at["engine"] = "idle"
            THEN At("engine", "engine_1031")
            ELSE UNCHANGED at
    ELSE UNCHANGED <<_engine_thinking, at>>

\* The user selects the mode and the colour.
Select ==
    /\ at["tk"] = "idle"
    /\ games = 0
    /\ loading = None
    /\ \E m \in MODES, c \in COLORS :
          /\ <<m, c>> # <<play_mode, player_color>>
          /\ m = "engine_vs_engine" => c = "white"
          /\ play_mode' = m
          /\ player_color' = c
    /\ UNCHANGED <<board_lock, locked, holds, game_running, _engine_thinking,
                   after, loading, at, arg, seen, base, undisturbed, games>>
    /\ UNCHANGED <<bvars, evars, avars, hvars, svars, lvars>>

\* _start_game, up to the call of self.board.reset()
StartGame ==
    /\ at["tk"] = "idle"
    /\ ~game_running
    /\ loading = None
    /\ games < MaxGames
    /\ games' = games + 1
    /\ Calls("tk", "start_1149")
    /\ UNCHANGED <<board_lock, locked, holds, game_running, _engine_thinking,
                   play_mode, player_color, after, loading, arg, seen, undisturbed>>
    /\ UNCHANGED <<bvars, evars, avars, hvars, svars, lvars>>

\* _start_game, from the return of reset: the _load_and_start thread starts
StartReset ==
    /\ at["tk"] = "start_1149"
    /\ ResetReturns("tk")
    /\ _engine_thinking' = FALSE
    /\ loading' = play_mode
    /\ At("tk", "idle")
    /\ UNCHANGED <<board_lock, locked, holds, game_running,
                   play_mode, player_color, after, arg, seen, games>>
    /\ UNCHANGED <<evars, avars, hvars, svars, lvars>>

\* _load_and_start: the engines are loaded or not; if they are, the game runs
Loaded ==
    /\ loading # None
    /\ loading' = None
    /\ \E ok \in BOOLEAN :
          IF ~ok
          THEN UNCHANGED <<game_running, after, at, game_paused, saved>>
          ELSE /\ game_running' = TRUE
               /\ game_paused' = FALSE
               /\ saved' = <<>>
               /\ IF loading = "human_vs_engine"
                  THEN /\ after' = IF player_color = "black"
                                   THEN after \cup {"_start_engine_turn"}
                                   ELSE after
                       /\ UNCHANGED at
                  ELSE /\ IF at["loop"] = "idle"
                          THEN At("loop", "loop_1371")
                          ELSE UNCHANGED at
                       /\ UNCHANGED after
    /\ UNCHANGED <<board_lock, locked, holds, _engine_thinking,
                   play_mode, player_color, arg, seen, base, undisturbed, games>>
    /\ UNCHANGED <<bvars, evars, avars, hvars, was_paused, lvars>>

\* _new_game, up to the call of self.board.reset()
NewGame ==
    /\ at["tk"] = "idle"
    /\ games < MaxGames
    /\ games' = games + 1
    /\ EndGame
    /\ game_paused' = FALSE
    /\ Calls("tk", "new_1246")
    /\ UNCHANGED <<board_lock, locked, holds,
                   play_mode, player_color, after, loading, arg, seen, undisturbed>>
    /\ UNCHANGED <<bvars, evars, avars, hvars, was_paused, saved, lvars>>

\* _new_game: reset returns
NewReset ==
    /\ at["tk"] = "new_1246"
    /\ ResetReturns("tk")
    /\ At("tk", "new_1252")
    /\ UNCHANGED <<board_lock, locked, holds, game_running, _engine_thinking,
                   play_mode, player_color, after, loading, arg, seen, games>>
    /\ UNCHANGED <<evars, avars, hvars, svars, lvars>>

\* _new_game: self.board_lock = threading.Lock()
NewLock ==
    /\ at["tk"] = "new_1252"
    /\ board_lock' = board_lock + 1
    /\ At("tk", "idle")
    /\ UNCHANGED <<locked, holds, game_running, _engine_thinking,
                   play_mode, player_color, after, loading, arg, seen, base,
                   undisturbed, games>>
    /\ UNCHANGED <<bvars, evars, avars, hvars, svars, lvars>>

\* root.after(0, self._start_engine_turn) comes due
AfterStartEngineTurn ==
    /\ in_event_loop
    /\ "_start_engine_turn" \in after
    /\ after' = after \ {"_start_engine_turn"}
    /\ start_engine_turn
    /\ UNCHANGED <<board_lock, locked, holds, game_running,
                   play_mode, player_color, loading, arg, seen, base,
                   undisturbed, games>>
    /\ UNCHANGED <<bvars, evars, avars, hvars, svars, lvars>>

\* root.after(0, lambda: self._end_game(...)) comes due
AfterEndGame ==
    /\ in_event_loop
    /\ "_end_game" \in after
    /\ after' = after \ {"_end_game"}
    /\ _end_game
    /\ UNCHANGED <<board_lock, locked, holds,
                   play_mode, player_color, loading, at, arg, seen, base,
                   undisturbed, games>>
    /\ UNCHANGED <<bvars, evars, avars, hvars, lvars>>

\* _on_board_click: the tests before the first 'with'
OnBoardClick ==
    /\ at["tk"] = "idle"
    /\ play_mode = "human_vs_engine"
    /\ game_running
    /\ ~_engine_thinking
    /\ Len(move_history) < MaxGuiPly
    /\ At("tk", "click_823")
    /\ UNCHANGED <<board_lock, locked, holds, game_running, _engine_thinking,
                   play_mode, player_color, after, loading, arg, seen, base,
                   undisturbed, games>>
    /\ UNCHANGED <<bvars, evars, avars, hvars, svars, lvars>>

\* the first 'with self.board_lock:' of the click handler, which only reads
ClickTurnOk ==
    /\ at["tk"] = "click_823"
    /\ free
    /\ IF turn_ok("tk") THEN At("tk", "click_845") ELSE At("tk", "idle")
    /\ UNCHANGED <<board_lock, locked, holds, game_running, _engine_thinking,
                   play_mode, player_color, after, loading, arg, seen, base,
                   undisturbed, games>>
    /\ UNCHANGED <<bvars, evars, avars, hvars, svars, lvars>>

\* self.board.legal_moves() and the move the clicked squares match, if any
ClickLegalMoves ==
    /\ at["tk"] = "click_845"
    /\ \E matching \in {{ u \in CLICKS :
                            \E legal \in {legal_moves(Self, None)} :
                               \E i \in DOMAIN legal : uci_of(legal[i]) = u }} :
          IF matching = {}
          THEN At("tk", "idle") /\ UNCHANGED arg
          ELSE \E u \in matching :
                  /\ arg' = [arg EXCEPT !["tk"] = u]
                  /\ At("tk", "click_863")
    /\ UNCHANGED <<board_lock, locked, holds, game_running, _engine_thinking,
                   play_mode, player_color, after, loading, seen, base,
                   undisturbed, games>>
    /\ UNCHANGED <<bvars, evars, avars, hvars, svars, lvars>>

\* the second 'with self.board_lock:' of the click handler is entered
ClickAcquire ==
    /\ at["tk"] = "click_863"
    /\ Acquire("tk")
    /\ At("tk", "click_864")
    /\ UNCHANGED <<board_lock, game_running, _engine_thinking,
                   play_mode, player_color, after, loading, arg, seen, base,
                   undisturbed, games>>
    /\ UNCHANGED <<bvars, evars, avars, hvars, svars, lvars>>

\* still_ok is computed and tested
ClickStillOk ==
    /\ at["tk"] = "click_864"
    /\ IF still_ok("tk")
       THEN /\ At("tk", "click_870")
            /\ seen' = [seen EXCEPT !["tk"] = turn]
            /\ UNCHANGED <<locked, holds, arg, undisturbed>>
       ELSE /\ Release("tk")
            /\ Leaves("tk")
            /\ undisturbed' = [undisturbed EXCEPT !["tk"] = TRUE]
    /\ UNCHANGED <<board_lock, game_running, _engine_thinking,
                   play_mode, player_color, after, loading, base, games>>
    /\ UNCHANGED <<bvars, evars, avars, hvars, svars, lvars>>

\* self.board.apply_uci(uci) is called by the click handler
ClickApplyUci ==
    /\ at["tk"] = "click_870"
    /\ Calls("tk", "click_apply")
    /\ UNCHANGED <<board_lock, locked, holds, game_running, _engine_thinking,
                   play_mode, player_color, after, loading, arg, seen,
                   undisturbed, games>>
    /\ UNCHANGED <<bvars, evars, avars, hvars, svars, lvars>>

\* apply_uci returns to the click handler, which leaves the 'with' and, if
\* the move was made, ends the game or starts the engine's turn
ClickApplied ==
    /\ at["tk"] = "click_apply"
    /\ \E o \in applied("tk") :
          /\ Assigned(o)
          /\ IF o.raised = "ValueError"
             THEN At("tk", "idle")
                  /\ UNCHANGED <<game_running, _engine_thinking, svars>>
             ELSE IF game_result(o.self)[1]
             THEN At("tk", "idle") /\ _end_game
             ELSE /\ UNCHANGED <<game_running, svars>>
                  /\ _engine_thinking' = (game_running \/ _engine_thinking)
                  /\ IF game_running /\ at["engine"] = "idle"
                     THEN at' = [at EXCEPT !["tk"] = "idle",
                                           !["engine"] = "engine_1031"]
                     ELSE At("tk", "idle")
    /\ Release("tk")
    /\ arg' = [arg EXCEPT !["tk"] = <<>>]
    /\ seen' = [seen EXCEPT !["tk"] = None]
    /\ base' = [base EXCEPT !["tk"] = None]
    /\ Disturbs("tk")
    /\ UNCHANGED <<board_lock, play_mode, player_color, after, loading, games>>
    /\ UNCHANGED <<evars, avars, hvars, lvars>>

\* _engine_move_thread ends: its 'finally' clears _engine_thinking
Finally ==
    /\ Leaves("engine")
    /\ _engine_thinking' = FALSE

\* the engine thread schedules _end_game and ends
FinallyEndGame ==
    /\ Finally
    /\ after' = after \cup {"_end_game"}

\* _do_engine_move, up to the first 'with': no game, or a dead engine
EngineEnter ==
    /\ at["engine"] = "engine_1031"
    /\ ~(game_paused /\ game_running)
    /\ IF ~game_running
       THEN Finally /\ UNCHANGED after
       ELSE \E engine_alive \in BOOLEAN :
               IF engine_alive
               THEN /\ At("engine", "engine_1049")
                    /\ UNCHANGED <<_engine_thinking, after, arg, seen>>
               ELSE FinallyEndGame
    /\ UNCHANGED <<board_lock, locked, holds, game_running,
                   play_mode, player_color, loading, base, games,
                   undisturbed>>
    /\ UNCHANGED <<bvars, evars, avars, hvars, svars, lvars>>

\* the first 'with self.board_lock:' of _do_engine_move, which only reads
EngineTurnOk ==
    /\ at["engine"] = "engine_1049"
    /\ free
    /\ IF turn_ok("engine")
       THEN /\ At("engine", "engine_1061")
            /\ UNCHANGED <<_engine_thinking, arg, seen>>
       ELSE Finally
    /\ UNCHANGED <<board_lock, locked, holds, game_running,
                   play_mode, player_color, after, loading, base, games,
                   undisturbed>>
    /\ UNCHANGED <<bvars, evars, avars, hvars, svars, lvars>>

\* engine.get_best_move returns a token, or None (an exception gives None),
\* and the tests that follow it
EngineGetBestMove ==
    /\ at["engine"] = "engine_1061"
    /\ Len(move_history) < MaxGuiPly
    /\ \E uci \in REPLIES \cup {<<>>} :
          IF ~game_running
          THEN Finally /\ UNCHANGED after
          ELSE IF uci = <<>>
          THEN FinallyEndGame
          ELSE /\ arg' = [arg EXCEPT !["engine"] = uci]
               /\ At("engine", "engine_1074")
               /\ UNCHANGED <<_engine_thinking, after, seen>>
    /\ UNCHANGED <<board_lock, locked, holds, game_running,
                   play_mode, player_color, loading, base, games,
                   undisturbed>>
    /\ UNCHANGED <<bvars, evars, avars, hvars, svars, lvars>>

\* the second 'with self.board_lock:' of _do_engine_move is entered
EngineAcquire ==
    /\ at["engine"] = "engine_1074"
    /\ Acquire("engine")
    /\ At("engine", "engine_1075")
    /\ UNCHANGED <<board_lock, game_running, _engine_thinking,
                   play_mode, player_color, after, loading, arg, seen, base,
                   undisturbed, games>>
    /\ UNCHANGED <<bvars, evars, avars, hvars, svars, lvars>>

\* 'if not self.game_running: return' and
\* 'if self.board.turn != engine_turn: return'
EngineStillOk ==
    /\ at["engine"] = "engine_1075"
    /\ IF game_running /\ still_ok("engine")
       THEN /\ At("engine", "engine_1078")
            /\ seen' = [seen EXCEPT !["engine"] = turn]
            /\ UNCHANGED <<locked, holds, arg, _engine_thinking, undisturbed>>
       ELSE /\ Release("engine")
            /\ Finally
            /\ undisturbed' = [undisturbed EXCEPT !["engine"] = TRUE]
    /\ UNCHANGED <<board_lock, game_running,
                   play_mode, player_color, after, loading, base, games>>
    /\ UNCHANGED <<bvars, evars, avars, hvars, svars, lvars>>

\* self.board.apply_uci(uci) is called by _do_engine_move
EngineApplyUci ==
    /\ at["engine"] = "engine_1078"
    /\ Calls("engine", "engine_apply")
    /\ UNCHANGED <<board_lock, locked, holds, game_running, _engine_thinking,
                   play_mode, player_color, after, loading, arg, seen,
                   undisturbed, games>>
    /\ UNCHANGED <<bvars, evars, avars, hvars, svars, lvars>>

\* apply_uci returns to _do_engine_move, which leaves the 'with'; an illegal
\* move or a finished game schedules _end_game
EngineApplied ==
    /\ at["engine"] = "engine_apply"
    /\ \E o \in applied("engine") :
          /\ Assigned(o)
          /\ IF o.raised = "ValueError" \/ game_result(o.self)[1]
             THEN FinallyEndGame
             ELSE Finally /\ UNCHANGED after
    /\ Release("engine")
    /\ Disturbs("engine")
    /\ base' = [base EXCEPT !["engine"] = None]
    /\ UNCHANGED <<board_lock, game_running, play_mode, player_color,
                   loading, games>>
    /\ UNCHANGED <<evars, avars, hvars, svars, lvars>>

\* _game_loop leaves
LoopLeaves ==
    /\ Leaves("loop")
    /\ UNCHANGED svars

\* _game_loop calls _end_game and returns
LoopEndGame ==
    /\ Leaves("loop")
    /\ _end_game

\* _game_loop, the head of the loop: no game, a finished game, a dead engine
LoopTop ==
    /\ at["loop"] = "loop_1371"
    /\ ~(game_paused /\ game_running)
    /\ IF ~game_running
       THEN LoopLeaves /\ UNCHANGED <<game_running, _engine_thinking>>
       ELSE /\ Len(move_history) < MaxGuiPly
            /\ IF game_result(Self)[1]
               THEN LoopEndGame
               ELSE \E engine_alive \in BOOLEAN :
                       IF engine_alive
                       THEN /\ At("loop", "loop_1399")
                            /\ UNCHANGED <<game_running, _engine_thinking,
                                           arg, seen, svars>>
                       ELSE LoopEndGame
    /\ UNCHANGED <<board_lock, locked, holds,
                   play_mode, player_color, after, loading, base, games,
                   undisturbed>>
    /\ UNCHANGED <<bvars, evars, avars, hvars, lvars>>

\* engine.get_best_move returns to _game_loop, and the tests that follow it
LoopGetBestMove ==
    /\ at["loop"] = "loop_1399"
    /\ \E uci \in REPLIES \cup {<<>>} :
          IF ~game_running
          THEN LoopLeaves /\ UNCHANGED <<game_running, _engine_thinking>>
          ELSE IF uci = <<>>
          THEN LoopEndGame
          ELSE /\ arg' = [arg EXCEPT !["loop"] = uci]
               /\ At("loop", "loop_1414")
               /\ UNCHANGED <<game_running, _engine_thinking, seen, svars>>
    /\ UNCHANGED <<board_lock, locked, holds,
                   play_mode, player_color, after, loading, base, games,
                   undisturbed>>
    /\ UNCHANGED <<bvars, evars, avars, hvars, lvars>>

\* self.board.apply_uci(uci) is called by _game_loop
LoopApplyUci ==
    /\ at["loop"] = "loop_1414"
    /\ Calls("loop", "loop_apply")
    /\ UNCHANGED <<board_lock, locked, holds, game_running, _engine_thinking,
                   play_mode, player_color, after, loading, arg, seen,
                   undisturbed, games>>
    /\ UNCHANGED <<bvars, evars, avars, hvars, svars, lvars>>

\* apply_uci returns to _game_loop: an illegal move ends the game, a move
\* made goes round the loop
LoopApplied ==
    /\ at["loop"] = "loop_apply"
    /\ \E o \in applied("loop") :
          /\ Assigned(o)
          /\ IF o.raised = "ValueError"
             THEN LoopEndGame
             ELSE /\ At("loop", "loop_1371")
                  /\ arg' = [arg EXCEPT !["loop"] = <<>>]
                  /\ UNCHANGED <<game_running, _engine_thinking, seen, svars>>
    /\ base' = [base EXCEPT !["loop"] = None]
    /\ Disturbs("loop")
    /\ UNCHANGED <<board_lock, locked, holds,
                   play_mode, player_color, after, loading, games>>
    /\ UNCHANGED <<evars, avars, hvars, lvars>>

\* the results the Stop dialog offers; closing it gives none
STOP_RESULTS == {"1-0", "0-1", "1/2-1/2", "*"}

\* _toggle_pause
TogglePause ==
    /\ at["tk"] = "idle"
    /\ game_running
    /\ game_paused' = ~game_paused
    /\ UNCHANGED <<was_paused, saved>>
    /\ UNCHANGED <<bvars, evars, gvars, avars, hvars, lvars>>

\* _stop_game, up to ask_stop_result: the game is paused and the dialog
\* opens
StopGame ==
    /\ at["tk"] = "idle"
    /\ game_running
    /\ was_paused' = game_paused
    /\ game_paused' = TRUE
    /\ At("tk", "stop_1211")
    /\ UNCHANGED <<board_lock, locked, holds, game_running, _engine_thinking,
                   play_mode, player_color, after, loading, arg, seen, base,
                   undisturbed, games>>
    /\ UNCHANGED <<bvars, evars, avars, hvars, saved, lvars>>

\* ask_stop_result returns None: the dialog was closed, the game goes on
StopCancel ==
    /\ at["tk"] = "stop_1211"
    /\ game_paused' = was_paused
    /\ was_paused' = FALSE
    /\ At("tk", "idle")
    /\ UNCHANGED <<board_lock, locked, holds, game_running, _engine_thinking,
                   play_mode, player_color, after, loading, arg, seen, base,
                   undisturbed, games>>
    /\ UNCHANGED <<bvars, evars, avars, hvars, saved, lvars>>

\* ask_stop_result returns a result: the flags are cleared and the game is
\* recorded if it has a move or a result
StopConfirm ==
    /\ at["tk"] = "stop_1211"
    /\ EndGame
    /\ game_paused' = FALSE
    /\ was_paused' = FALSE
    /\ \E result \in STOP_RESULTS :
          IF move_history # <<>> \/ result # "*"
          THEN save_game("_stop_game")
          ELSE UNCHANGED saved
    /\ At("tk", "idle")
    /\ UNCHANGED <<board_lock, locked, holds,
                   play_mode, player_color, after, loading, arg, seen, base,
                   undisturbed, games>>
    /\ UNCHANGED <<bvars, evars, avars, hvars, lvars>>

GuiNext ==
    \/ Select \/ StartGame \/ StartReset \/ Loaded
    \/ NewGame \/ NewReset \/ NewLock
    \/ TogglePause \/ StopGame \/ StopCancel \/ StopConfirm
    \/ AfterStartEngineTurn \/ AfterEndGame
    \/ OnBoardClick \/ ClickTurnOk \/ ClickLegalMoves \/ ClickAcquire
    \/ ClickStillOk \/ ClickApplyUci \/ ClickApplied
    \/ EngineEnter \/ EngineTurnOk \/ EngineGetBestMove \/ EngineAcquire
    \/ EngineStillOk \/ EngineApplyUci \/ EngineApplied
    \/ LoopTop \/ LoopGetBestMove \/ LoopApplyUci \/ LoopApplied

\* the window with its threads, the user pressing and clicking at any time
GuiSpec == Init /\ [][GuiNext]_vars

(***************************************************************************)
(* Properties of the window                                                *)
(***************************************************************************)
\* thread t holds the Lock that self.board_lock refers to
holds_board_lock(t) == holds[t] # 0 /\ holds[t] = board_lock /\ holds[t] \in locked

\* another thread than t is inside a handler that touches the Board
shared(t) == \E other \in THREADS \ {t} : at[other] # "idle"

\* C17: whenever a method that changes the Board is in progress (apply_uci
\* in the click handler, in _do_engine_move or in _game_loop, reset in Start
\* or New Game) while another thread is at work on the same Board, its
\* thread holds the board_lock; and no two such methods are in progress at
\* once: no two moves, no reset during a move.
C17_EveryMutationUnderBoardLock ==
    /\ \A t \in THREADS : mutating(t) /\ shared(t) => holds_board_lock(t)
    /\ \A t1, t2 \in THREADS : mutating(t1) /\ mutating(t2) => t1 = t2

\* What the locks do give: the click handler and _do_engine_move apply a move
\* only inside a 'with' on the Lock that was self.board_lock when they
\* entered it, no Lock is held by two threads, and reset and the apply_uci of
\* _game_loop run with no Lock at all.
C17_LockedAndUnlockedMutations ==
    /\ \A t \in THREADS :
          /\ at[t] \in {"click_apply", "engine_apply"}
                => holds[t] # 0 /\ holds[t] \in locked /\ holds[t] <= board_lock
          /\ at[t] \in {"start_1149", "new_1246", "loop_apply"} => holds[t] = 0
    /\ \A t1, t2 \in THREADS : holds[t1] # 0 /\ holds[t1] = holds[t2] => t1 = t2

\* New Game resets the Board while _do_engine_move is inside apply_uci with
\* the lock held.
C17_Witness ==
    /\ at["engine"] = "engine_apply"
    /\ holds_board_lock("engine")
    /\ at["tk"] = "new_1246"

\* thread t has tested the turn inside its 'with' and is calling apply_uci,
\* or is inside it
applies(t) ==
    \/ t = "tk" /\ at[t] \in {"click_870", "click_apply"}
    \/ t = "engine" /\ at[t] \in {"engine_1078", "engine_apply"}

\* C18: in human_vs_engine mode the click handler and _do_engine_move call
\* apply_uci only with a Lock held since before their test of board.turn,
\* having read there the turn of their own colour; and in an interleaving of
\* clicks and moves of the engine it is still the turn of their colour at
\* the call and until apply_uci returns.
C18_TurnCheckedUnderLock ==
    \A t \in {"tk", "engine"} :
       applies(t) =>
          /\ play_mode = "human_vs_engine"
          /\ holds[t] # 0 /\ holds[t] \in locked
          /\ seen[t] = own(t)
          /\ undisturbed[t] => turn = own(t)

\* The click handler found its turn in its first 'with', a move of the
\* engine came in, and the handler is about to test the turn again inside the
\* 'with' in which it would apply its move.
C18_Witness ==
    /\ play_mode = "human_vs_engine"
    /\ at["tk"] = "click_864"
    /\ holds_board_lock("tk")
    /\ undisturbed["tk"]
    /\ turn # own("tk")

(***************************************************************************)
(* AnalyzerEngine.eval_position (src/chess_arena.py 854-896): the search   *)
(* loop of get_best_move, keeping the score of the info lines.  A q.get    *)
(* that times out takes its 0.2 s; a line is taken from the queue at the   *)
(* time the loop has reached.                                              *)
(***************************************************************************)
\* q.get(timeout=0.2), in tenths of a second
EVAL_POLL == 2

\* the grace of eval_position: movetime_ms / 1000 + 5
EVAL_GRACE == 50

\* the value given to a mate
MATE_SCORE == 30000

\* the deadline of the loop, in tenths of a second after the call
eval_wait(ms) == (ms \div 100) + EVAL_GRACE

\* the search times passed to eval_position, in milliseconds
EVAL_MOVETIMES == { 150 }

\* lines followed in one eval_position
MaxHeard == 3

\* the games whose positions are evaluated
MOVE_LISTS ==
    { <<>>,
      << <<"e", "2", "e", "4">> >>,
      << <<"e", "2", "e", "4">>, <<"e", "7", "e", "5">> >>,
      << <<"e", "2", "e", "4">>, <<"e", "7", "e", "5">>, <<"g", "1", "f", "3">> >> }

L_CP_NEG == <<"i", "n", "f", "o", " ", "d", "e", "p", "t", "h", " ", "2", " ", "s", "c", "o", "r", "e", " ", "c", "p", " ", "-", "3", "5", " ", "n", "o", "d", "e", "s", " ", "9", "0">>

L_MATE == <<"i", "n", "f", "o", " ", "s", "c", "o", "r", "e", " ", "m", "a", "t", "e", " ", "3", " ", "d", "e", "p", "t", "h", " ", "7">>

L_MATED == <<"i", "n", "f", "o", " ", "d", "e", "p", "t", "h", " ", "4", " ", "s", "c", "o", "r", "e", " ", "m", "a", "t", "e", " ", "-", "2">>

L_MATE0 == <<"i", "n", "f", "o", " ", "d", "e", "p", "t", "h", " ", "0", " ", "s", "c", "o", "r", "e", " ", "m", "a", "t", "e", " ", "0">>

L_NOSCORE == <<"i", "n", "f", "o", " ", "d", "e", "p", "t", "h", " ", "3", " ", "n", "o", "d", "e", "s", " ", "7", "7", " ", "n", "p", "s", " ", "1", "0", "0", "0">>

\* what the engine writes during an analysis
ANALYSIS_LINES ==
    { L_INFO, L_CP_NEG, L_MATE, L_MATED, L_MATE0, L_NOSCORE, L_BEST, L_BLANK }

\* n_moves = len(moves_str.split()) if moves_str else 0
n_moves(text) == IF text # <<>> THEN Len(split_ws(text, <<>>)) ELSE 0

\* side_to_move were always White
side_to_move_white(n) == "w"

\* side_to_move = 'w' if n_moves % 2 == 0 else 'b'
side_to_move(n) == IF n % 2 = 0 THEN "w" ELSE "b"

\* lines 883-896: what eval_position returns for the score it kept
evaluation(score, type, text) ==
    IF score = <<>> THEN << <<>>, <<>> >>
    ELSE LET cp == IF type = <<"m", "a", "t", "e">>
                   THEN IF score[1] > 0 THEN MATE_SCORE ELSE 0 - MATE_SCORE
                   ELSE score[1]
         IN  << << IF side_to_move(n_moves(text)) = "b" THEN 0 - cp ELSE cp >>,
                << type >> >>

\* eval_position leaves its loop and returns
EvalReturns(score, type, why) ==
    /\ call' = [op |-> "eval_position", raised |-> None,
                ret |-> evaluation(score, type, moves_str),
                why |-> why, line |-> <<>>]
    /\ pc' = "idle"

\* eval_position(moves_str, movetime_ms), up to the loop
EvalPosition ==
    /\ pc = "idle" /\ searches < MaxSearches
    /\ searches' = searches + 1
    /\ \E moves \in MOVE_LISTS, ms \in EVAL_MOVETIMES :
          IF ~ready \/ ~alive
          THEN /\ call' = [op |-> "eval_position", raised |-> None,
                           ret |-> << <<>>, <<>> >>, why |-> "not ready",
                           line |-> <<>>]
               /\ moves_str' = join(<<" ">>, moves)
               /\ heard' = <<>>
               /\ UNCHANGED <<q, movetime_ms, pc, now, end,
                              last_score, last_score_type>>
          ELSE /\ q' = <<>>
               /\ moves_str' = join(<<" ">>, moves)
               /\ movetime_ms' = ms
               /\ now' = 0
               /\ end' = eval_wait(ms)
               /\ last_score' = <<>>
               /\ last_score_type' = <<"c", "p">>
               /\ heard' = <<>>
               /\ pc' = "eval"
               /\ call' = NoCall
    /\ UNCHANGED <<process, ready, last_info, os, trace, burst, wake,
                   stop_pc, stop_call, fields, parsed>>
    /\ UNCHANGED <<bvars, gvars, hvars, svars, lvars>>

\* the loop of eval_position: q.get returns a line
EvalLine ==
    /\ pc = "eval" /\ q # <<>>
    /\ q' = Tail(q)
    /\ heard' = Append(heard, Head(q))
    /\ \E line \in {Head(q)} :
          IF line = <<>>
          THEN UNCHANGED <<last_score, last_score_type, pc, call>>
          ELSE IF startswith(line, <<"i", "n", "f", "o", " ">>)
          THEN /\ \E info \in {_parse_info(line)} :
                     IF "score" \in DOMAIN info
                     THEN /\ last_score' = << info["score"] >>
                          /\ last_score_type' =
                                IF "score_type" \in DOMAIN info
                                THEN info["score_type"] ELSE <<"c", "p">>
                     ELSE UNCHANGED <<last_score, last_score_type>>
               /\ UNCHANGED <<pc, call>>
          ELSE IF startswith(line, <<"b", "e", "s", "t", "m", "o", "v", "e">>)
          THEN /\ EvalReturns(last_score, last_score_type, "bestmove")
               /\ UNCHANGED <<last_score, last_score_type>>
          ELSE UNCHANGED <<last_score, last_score_type, pc, call>>
    /\ UNCHANGED <<process, ready, last_info, os, trace, burst, now, end, wake,
                   movetime_ms, searches, stop_pc, stop_call,
                   moves_str, fields, parsed>>
    /\ UNCHANGED <<bvars, gvars, hvars, svars, lvars>>

\* the loop of eval_position: q.get raises queue.Empty after its timeout
EvalEmpty ==
    /\ pc = "eval" /\ q = <<>>
    /\ now' = now + EVAL_POLL
    /\ IF process # None /\ os = "exited"
       THEN EvalReturns(last_score, last_score_type, "exited")
       ELSE IF now + EVAL_POLL < end
       THEN UNCHANGED <<pc, call>>
       ELSE EvalReturns(last_score, last_score_type, "timeout")
    /\ UNCHANGED <<process, ready, q, last_info, os, trace, burst, end, wake,
                   movetime_ms, searches, stop_pc, stop_call, avars, hvars>>
    /\ UNCHANGED <<bvars, gvars, hvars, svars, lvars>>

\* the engine writes a line of its analysis and _reader puts it on the queue
Analyse ==
    /\ pc = "eval" /\ os = "running"
    /\ Len(q) < MaxQ /\ Len(heard) + Len(q) < MaxHeard
    /\ \E line \in ANALYSIS_LINES : q' = Append(q, line)
    /\ UNCHANGED <<process, ready, last_info, os, trace, burst, now, end, wake,
                   movetime_ms, pc, call, searches, stop_pc, stop_call, avars, hvars>>
    /\ UNCHANGED <<bvars, gvars, hvars, svars, lvars>>

AnalyzerNext == EvalPosition \/ EvalLine \/ EvalEmpty \/ Analyse \/ Exit

\* a started analyzer, one position evaluated, the engine writing what it
\* likes or exiting
AnalyzerSpec == Started /\ [][AnalyzerNext]_vars

(***************************************************************************)
(* Properties of eval_position                                             *)
(***************************************************************************)
\* what each line of the analysis says, read off the line: the kind of its
\* score ("none" if it has no score), the centipawns, and for a mate the
\* side it favours (the side to move when N > 0; the other side when N < 0
\* and when N = 0, the side to move being mated already)
says(line) ==
    CASE line = L_INFO -> [kind |-> "cp", value |-> 20, favours |-> None]
      [] line = L_CP_NEG -> [kind |-> "cp", value |-> 0 - 35, favours |-> None]
      [] line = L_MATE -> [kind |-> "mate", value |-> 0, favours |-> "mover"]
      [] line = L_MATED -> [kind |-> "mate", value |-> 0, favours |-> "other"]
      [] line = L_MATE0 -> [kind |-> "mate", value |-> 0, favours |-> "other"]
      [] OTHER -> [kind |-> "none", value |-> 0, favours |-> None]

\* the value the claim gives a score after the given moves
value_of(score, moves) ==
    LET for_mover == IF score.kind = "mate"
                     THEN IF score.favours = "mover" THEN 30000 ELSE 0 - 30000
                     ELSE score.value
    IN  IF Len(moves) % 2 = 1 THEN 0 - for_mover ELSE for_mover

\* the places in heard of the lines that carry a score
scored == { i \in DOMAIN heard : says(heard[i]).kind # "none" }

\* eval_position has returned
evaluated == call.op = "eval_position" /\ pc = "idle"

\* C19: eval_position returns the score of the last info line with a score
\* that it read, all of them read before the bestmove line, and None if
\* there was none; a mate counts 30000 for the side it favours; and the sign
\* is turned exactly when the number of moves is odd.
C19_LastScoreSeenFromWhite ==
    /\ \A i \in DOMAIN heard :
          startswith(heard[i], <<"b", "e", "s", "t", "m", "o", "v", "e">>)
             => i = Len(heard) /\ evaluated /\ call.why = "bestmove"
    /\ evaluated =>
          \A moves \in MOVE_LISTS :
             join(<<" ">>, moves) = moves_str =>
                IF call.why = "not ready" \/ scored = {}
                THEN call.ret[1] = <<>>
                ELSE \E last \in scored :
                        /\ \A i \in scored : i <= last
                        /\ call.ret[1] = << value_of(says(heard[last]), moves) >>

\* After 1. e4 the engine wrote a score in centipawns, then that it is being
\* mated, then its move: Black to move is mated, and eval_position returns
\* 30000.
C19_Witness ==
    /\ evaluated
    /\ call.why = "bestmove"
    /\ moves_str = <<"e", "2", "e", "4">>
    /\ heard = << L_INFO, L_MATED, L_BEST >>
    /\ call.ret[1] = << 30000 >>

(***************************************************************************)
(* UCIEngine._parse_info on info lines made of the sub-fields depth,       *)
(* score, nodes, nps and pv in every order and subset.  A field is the     *)
(* tokens it is written with and what it says: a number, for a score its   *)
(* kind too, for a pv its moves; ok tells whether its value is well formed.*)
(***************************************************************************)
\* sub-fields of a line that are followed
MaxFields == 4

F_DEPTH ==
    [name |-> "depth", tokens |-> << <<"d", "e", "p", "t", "h">>, <<"1", "2">> >>, ok |-> TRUE,
     value |-> 12, kind |-> <<>>, moves |-> <<>>]

F_DEPTH_BAD ==
    [name |-> "depth", tokens |-> << <<"d", "e", "p", "t", "h">>, <<"1", "x">> >>, ok |-> FALSE,
     value |-> 0, kind |-> <<>>, moves |-> <<>>]

F_CP ==
    [name |-> "score", tokens |-> << <<"s", "c", "o", "r", "e">>, <<"c", "p">>, <<"-", "3", "5">> >>, ok |-> TRUE,
     value |-> 0 - 35, kind |-> <<"c", "p">>, moves |-> <<>>]

F_MATE ==
    [name |-> "score", tokens |-> << <<"s", "c", "o", "r", "e">>, <<"m", "a", "t", "e">>, <<"3">> >>, ok |-> TRUE,
     value |-> 3, kind |-> <<"m", "a", "t", "e">>, moves |-> <<>>]

F_NODES ==
    [name |-> "nodes", tokens |-> << <<"n", "o", "d", "e", "s">>, <<"1", "0", "0", "0">> >>, ok |-> TRUE,
     value |-> 1000, kind |-> <<>>, moves |-> <<>>]

F_NPS ==
    [name |-> "nps", tokens |-> << <<"n", "p", "s">>, <<"5">> >>, ok |-> TRUE,
     value |-> 5, kind |-> <<>>, moves |-> <<>>]

F_PV2 ==
    [name |-> "pv", tokens |-> << <<"p", "v">>, <<"e", "2", "e", "4">>, <<"e", "7", "e", "5">> >>, ok |-> TRUE,
     value |-> 0, kind |-> <<>>, moves |-> << <<"e", "2", "e", "4">>, <<"e", "7", "e", "5">> >>]

F_PV6 ==
    [name |-> "pv",
     tokens |-> << <<"p", "v">>, <<"e", "2", "e", "4">>, <<"e", "7", "e", "5">>, <<"g", "1", "f", "3">>, <<"b", "8", "c", "6">>, <<"f", "1", "b", "5">>, <<"a", "7", "a", "6">> >>,
     ok |-> TRUE, value |-> 0, kind |-> <<>>,
     moves |-> << <<"e", "2", "e", "4">>, <<"e", "7", "e", "5">>, <<"g", "1", "f", "3">>, <<"b", "8", "c", "6">>, <<"f", "1", "b", "5">>, <<"a", "7", "a", "6">> >>]

FIELDS == { F_DEPTH, F_DEPTH_BAD, F_CP, F_MATE, F_NODES, F_NPS, F_PV2, F_PV6 }

\* every line of at most MaxFields sub-fields, each kind at most once
INFO_FIELDS ==
    UNION { { s \in [1..k -> FIELDS] :
                \A i, j \in 1..k : i # j => s[i].name # s[j].name } :
            k \in 0..MaxFields }

\* the tokens of the fields, in order
RECURSIVE tokens_of(_)
tokens_of(fs) ==
    IF Len(fs) = 0 THEN <<>> ELSE fs[1].tokens \o tokens_of(Tail(fs))

\* the line the engine writes for the fields
info_line(fs) == join(<<" ">>, << <<"i", "n", "f", "o">> >> \o tokens_of(fs))

\* a line is drawn
ParseInit ==
    /\ NewBoard
    /\ UCIEngine
    /\ ChessGUI
    /\ NoEval
    /\ NoSearch
    /\ NoGame
    /\ LoadingScreen
    /\ fields \in INFO_FIELDS
    /\ parsed = <<>>

\* info = self._parse_info(line): parsed is <<>> before, <<info>> after
ParseInfo ==
    /\ parsed = <<>>
    /\ parsed' = << _parse_info(info_line(fields)) >>
    /\ UNCHANGED <<moves_str, last_score, last_score_type, heard, fields>>
    /\ UNCHANGED <<bvars, evars, gvars, hvars, svars, lvars>>

ParseNext == ParseInfo

\* _parse_info applied to each of the lines
ParseSpec == ParseInit /\ [][ParseNext]_vars

\* the dictionary returned for the line
info_returned == parsed[1]

\* the field is in the dictionary with what it says (a score with its kind)
returned_as(f, info) ==
    CASE f.name = "score" ->
           /\ "score" \in DOMAIN info /\ info["score"] = f.value
           /\ "score_type" \in DOMAIN info /\ info["score_type"] = f.kind
      [] f.name = "pv" ->
           "pv" \in DOMAIN info /\ info["pv"] = f.moves
      [] OTHER ->
           f.name \in DOMAIN info /\ info[f.name] = f.value

\* the keys under which a field is returned
keys_of(f) == IF f.name = "score" THEN {"score", "score_type"} ELSE {f.name}

\* the place of the pv among the fields, Len(fs) + 1 when there is none
pv_at(fs) ==
    IF \E i \in DOMAIN fs : fs[i].name = "pv"
    THEN CHOOSE i \in DOMAIN fs : fs[i].name = "pv"
    ELSE Len(fs) + 1

\* the tokens that follow 'pv' on the line, the later fields' tokens included
after_pv(fs) ==
    Tail(fs[pv_at(fs)].tokens) \o tokens_of(SubSeq(fs, pv_at(fs) + 1, Len(fs)))

info_said(line) ==
    CASE line = L_INFO -> [depth |-> 1, score |-> 20, score_type |-> <<"c", "p">>]
      [] line = L_DEPTH -> [depth |-> 5]
      [] line = L_NODES -> [nodes |-> 90, nps |-> 1000]

\* the dictionaries of infos laid over each other, the later ones on top
RECURSIVE merged(_)
merged(infos) ==
    IF infos = <<>> THEN <<>>
    ELSE update(merged(SubSeq(infos, 1, Len(infos) - 1)), infos[Len(infos)])

\* this step, the loop of get_best_move takes an info line from the queue
consumes_info == pc = "loop" /\ q # <<>> /\ q' = Tail(q) /\ is_info(Head(q))

\* this step, a search begins
search_begins == pc = "alive_poll" /\ pc' = "send_position"

\* C21 as stated, the cache: once a line has been delivered, last_info is the
\* info parsed from the latest line
C21_CacheIsLatestInfo ==
    told # <<>> => last_info = told[Len(told)]

\* C21: every info line consumed is delivered to on_info exactly once, as the
\* info parsed from it and in the order of arrival, and nothing else is
\* delivered; last_info holds, for each field, the value of the latest line of
\* this search that carried it; and both start empty at each search
C21_EachInfoDeliveredAndMerged ==
    /\ [](last_info = merged(told))
    /\ [][/\ consumes_info => told' = Append(told, info_said(Head(q)))
          /\ search_begins => told' = <<>> /\ last_info' = <<>>
          /\ told' # told => consumes_info \/ search_begins]_vars

\* in the second search with a callback, 'info depth 1 score cp 20' and then
\* 'info nodes 90 nps 1000' were delivered, and last_info has the fields of both
C21_Witness ==
    /\ searches = 2 /\ on_info
    /\ told = << info_said(L_INFO), info_said(L_NODES) >>
    /\ last_info = [depth |-> 1, score |-> 20, score_type |-> <<"c", "p">>,
                    nodes |-> 90, nps |-> 1000]

(***************************************************************************)
(* The legality filter, measured against the rules of attack written down  *)
(* square by square.                                                       *)
(***************************************************************************)
abs(x) == IF x < 0 THEN 0 - x ELSE x

sign(x) == IF x < 0 THEN 0 - 1 ELSE IF x > 0 THEN 1 ELSE 0

\* by the rules of chess the piece on (fr, fc) of grid attacks (r, c)
strikes(grid, fr, fc, r, c) ==
    LET p == grid[fr][fc]
        dr == r - fr
        dc == c - fc
        n == IF abs(dr) > abs(dc) THEN abs(dr) ELSE abs(dc)
        clear == \A k \in 1..(n - 1) : grid[fr + k * sign(dr)][fc + k * sign(dc)] = "."
        straight == (dr = 0) # (dc = 0)
        diagonal == abs(dr) = abs(dc) /\ dr # 0
    IN  CASE lower(p) = "n" -> {abs(dr), abs(dc)} = {1, 2}
          [] lower(p) = "k" -> n = 1
          [] lower(p) = "p" -> abs(dc) = 1 /\ dr = (IF isupper(p) THEN 0 - 1 ELSE 1)
          [] lower(p) = "r" -> straight /\ clear
          [] lower(p) = "b" -> diagonal /\ clear
          [] lower(p) = "q" -> (straight \/ diagonal) /\ clear
          [] OTHER -> FALSE

\* in position self a piece of the other side attacks the king of side t
exposed(self, t) ==
    \E k \in Range(SQUARES), a \in Range(SQUARES) :
       /\ self.board[k[1]][k[2]] = (IF t = "w" THEN "K" ELSE "k")
       /\ enemy(self.board[a[1]][a[2]], t)
       /\ strikes(self.board, a[1], a[2], k[1], k[2])

\* the pseudo-legal moves of the side to move
pseudo_moves ==
    UNION { Range(_pseudo(Self, sq[1], sq[2])) :
              sq \in { x \in Range(SQUARES) :
                         /\ board[x[1]][x[2]] # "."
                         /\ isupper(board[x[1]][x[2]]) = (turn = "w") } }

\* the pseudo-legal moves after which the mover's king is attacked
exposing ==
    { mv \in pseudo_moves :
        exposed(_apply_raw(Self, mv[1], mv[2], mv[3], mv[4], mv[5]), turn) }

\* C22: the king of the side that has just moved is never attacked by the
\* side to move, and legal_moves() holds exactly the pseudo-legal moves that
\* do not leave the mover's king attacked
C22_LegalMovesKeepKingSafe ==
    /\ ~exposed(Self, other_side(turn))
    /\ Range(Legal) = pseudo_moves \ exposing

\* after a move, a pseudo-legal move that would leave the king attacked is
\* left out while other moves are legal
C22_Witness ==
    /\ move_history # <<>> /\ raised = None
    /\ exposing # {}
    /\ Len(Legal) > 0

(***************************************************************************)
(* The castling flags and the history of the king and the rooks.           *)
(***************************************************************************)
\* the side and the rook's file a castling flag stands for
FLAGS ==
    { [flag |-> "K", side |-> "w", file |-> "h"],
      [flag |-> "Q", side |-> "w", file |-> "a"],
      [flag |-> "k", side |-> "b", file |-> "h"],
      [flag |-> "q", side |-> "b", file |-> "a"] }

\* the king and the rook of the flag stand on their home squares
at_home(f) ==
    /\ board[IF f.side = "w" THEN 7 ELSE 0][4] = (IF f.side = "w" THEN "K" ELSE "k")
    /\ board[IF f.side = "w" THEN 7 ELSE 0][IF f.file = "h" THEN 7 ELSE 0]
          = (IF f.side = "w" THEN "R" ELSE "r")

\* C23: a castling flag is present exactly as long as no move of the game has
\* taken the king from its home square, taken the rook from its home corner
\* or captured the rook there; and while it is present the king and the rook
\* stand on their home squares
C23_FlagMeansKingAndRookUnmoved ==
    \A f \in FLAGS :
       /\ has_char(castling, f.flag)
             <=> ~king_has_moved(f.side) /\ ~rook_has_left(f.side, f.file)
       /\ has_char(castling, f.flag) => at_home(f)

\* Black has captured the rook on h1 and White's king has not moved: White
\* keeps the flag of the a-side only
C23_Witness ==
    /\ arrived_at(<<"h", "1">>) /\ ~left_from(<<"h", "1">>)
    /\ ~king_has_moved("w") /\ ~rook_has_left("w", "a")
    /\ has_char(castling, "Q") /\ ~has_char(castling, "K")

(***************************************************************************)
(* The clocks and the two histories.                                       *)
(***************************************************************************)
\* the number of pieces on a grid
pieces(grid) ==
    Cardinality({ sq \in Range(SQUARES) : grid[sq[1]][sq[2]] # "." })

\* the sum of the counts of a dictionary
RECURSIVE total(_)
total(dict) ==
    IF DOMAIN dict = {} THEN 0
    ELSE LET k == CHOOSE x \in DOMAIN dict : TRUE
         IN  dict[k] + total([x \in DOMAIN dict \ {k} |-> dict[x]])

\* this step, apply_uci applies a move
move_applied == Len(move_history') = Len(move_history) + 1

\* the square the move applied in this step leaves
from_square == move_of(move_history'[Len(move_history')][1])

\* C24: a move that is applied sets the half-move clock to 0 if a pawn moved
\* or a piece was captured and adds 1 to it otherwise, and adds 1 to the
\* full-move number if Black moved; so the length of move_history is
\* 2 * (fullmove - 1), plus 1 with Black to move, and is the sum of the counts
\* of pos_history
C24_ClocksAndHistories ==
    /\ [](/\ Len(move_history) = 2 * (fullmove - 1) + (IF turn = "b" THEN 1 ELSE 0)
          /\ Len(move_history) = total(pos_history))
    /\ [][move_applied =>
            /\ halfmove' =
                  IF \/ lower(board[from_square[1]][from_square[2]]) = "p"
                     \/ pieces(board') < pieces(board)
                  THEN 0 ELSE halfmove + 1
            /\ fullmove' = fullmove + (IF turn = "b" THEN 1 ELSE 0)
            /\ turn' = other_side(turn)]_vars

\* a knight has captured a piece after some moves without pawn move or
\* capture: the clock is back at 0, the histories have one entry a move
C24_Witness ==
    /\ halfmove = 0 /\ Len(move_history) > 4
    /\ move_history[Len(move_history)][2][1] = "N"
    /\ has_char(move_history[Len(move_history)][2], "x")
    /\ Len(move_history) = total(pos_history)

(***************************************************************************)
(* The bestmove line a call returns and the search it answers.             *)
(***************************************************************************)
\* C25: the move get_best_move returns is the token of the bestmove line the
\* engine wrote in answer to the 'go' of that very call, never the line of
\* an earlier search
C25_BestMoveOfOwnSearch ==
    (pc = "idle" /\ call.op = "get_best_move" /\ call.why = "bestmove")
       => call.line = best_for(searches)

\* the second call has returned e2e4, the answer to the first search, whose
\* call had returned none; the 'go' of the second is still unanswered
C25_Witness ==
    /\ pc = "idle" /\ call.op = "get_best_move" /\ call.why = "bestmove"
    /\ searches = 2
    /\ call.ret = << <<"e", "2", "e", "4">> >>
    /\ pending = <<2>>

(***************************************************************************)
(* Recording of a game                                                     *)
(***************************************************************************)
\* C26: between one start of a game and the next, save_game is called at
\* most once, however the thread that ends the game through _end_game and the
\* user confirming the Stop dialog in _stop_game interleave.
C26_GameRecordedAtMostOnce == Len(saved) <= 1

\* the game was recorded by _end_game while the Stop dialog was open, and
\* again by _stop_game when the user confirmed
C26_Witness ==
    /\ saved = <<"_end_game", "_stop_game">>
    /\ ~game_running
    /\ at["tk"] = "idle"

(***************************************************************************)
(* The ready flag                                                          *)
(***************************************************************************)
\* start() has taken a line from the queue as the token kw
acknowledged(kw) ==
    \E i \in DOMAIN trace :
       /\ trace[i].dir = "read"
       /\ strip(trace[i].text) = kw \/ startswith(trace[i].text, kw)

\* start() has sent its first command and has ended without 'readyok'
handshake_failed ==
    /\ trace # <<>>
    /\ client_state # "handshaking"
    /\ ~acknowledged(L_READYOK)

\* C27: ready is true only when 'uciok' and then 'readyok' have been
\* received: once start() has raised at a handshake step ready is false, and
\* a get_best_move on that session returns None without sending a command.
C27_ReadyOnlyAfterBothAcknowledgements ==
    /\ ready /\ client_state # "handshaking"
          => acknowledged(L_UCIOK) /\ acknowledged(L_READYOK)
    /\ handshake_failed =>
          /\ ~ready
          /\ pc = "idle"
          /\ call.op = "get_best_move" => call.ret = <<>> /\ call.why = "not ready"

\* start() raised for want of 'readyok', and a get_best_move on the session
\* has written 'position' and 'go' to the process and waits for its answer
C27_Witness ==
    /\ handshake_failed
    /\ acknowledged(L_UCIOK)
    /\ ready
    /\ alive
    /\ pc = "loop"
    /\ stop_call.during = None

(***************************************************************************)
(* The loading screen                                                      *)
(***************************************************************************)
\* a callback of the loading screen: a label is set, or _check_done
set_label(which, text) == [call |-> "label", which |-> which, text |-> text]

check_done == [call |-> "_check_done", which |-> None, text |-> None]

\* self.root.after(0, callback)
root_after(callback) == events' = Append(events, callback)

\* loader thread t goes to statement p
Step(t, p) == loader' = [loader EXCEPT ![t] = p]

\* _load_openings, the loop over the candidates: a book that loads is kept
\* and its label scheduled; with none the warning is scheduled
LoadOpenings ==
    /\ loader["openings"] = "for path"
    /\ \E loaded \in BOOLEAN :
          IF loaded
          THEN /\ _opening_book' = "OpeningBook"
               /\ root_after(set_label("open", "openings"))
          ELSE /\ UNCHANGED _opening_book
               /\ root_after(set_label("open", "Not found"))
    /\ Step("openings", "done")
    /\ UNCHANGED <<_openings_done, _analyzer_done, _analyzer_eng, labels,
                   scheduled, launched>>
    /\ UNCHANGED <<bvars, evars, gvars, avars, hvars, svars>>

\* self._openings_done = True
OpeningsDone ==
    /\ loader["openings"] = "done"
    /\ _openings_done' = TRUE
    /\ Step("openings", "after")
    /\ UNCHANGED <<_analyzer_done, _opening_book, _analyzer_eng, labels,
                   events, scheduled, launched>>
    /\ UNCHANGED <<bvars, evars, gvars, avars, hvars, svars>>

\* self.root.after(0, self._check_done), and _load_openings returns
OpeningsCheck ==
    /\ loader["openings"] = "after"
    /\ root_after(check_done)
    /\ Step("openings", "returned")
    /\ UNCHANGED <<_openings_done, _analyzer_done, _opening_book,
                   _analyzer_eng, labels, scheduled, launched>>
    /\ UNCHANGED <<bvars, evars, gvars, avars, hvars, svars>>

\* _load_analyzer, the loop over the candidates: with no file the warning is
\* scheduled
FindAnalyzer ==
    /\ loader["analyzer"] = "for p"
    /\ \E found_path \in BOOLEAN :
          IF found_path
          THEN Step("analyzer", "try") /\ UNCHANGED events
          ELSE /\ root_after(set_label("anal", "Not found"))
               /\ Step("analyzer", "done")
    /\ UNCHANGED <<_openings_done, _analyzer_done, _opening_book,
                   _analyzer_eng, labels, scheduled, launched>>
    /\ UNCHANGED <<bvars, evars, gvars, avars, hvars, svars>>

\* _load_analyzer, the try statement: eng.start() returns or raises
StartAnalyzer ==
    /\ loader["analyzer"] = "try"
    /\ \E started \in BOOLEAN :
          IF started
          THEN /\ _analyzer_eng' = "AnalyzerEngine"
               /\ root_after(set_label("anal", "name"))
          ELSE /\ _analyzer_eng' = None
               /\ root_after(set_label("anal", "Failed"))
    /\ Step("analyzer", "done")
    /\ UNCHANGED <<_openings_done, _analyzer_done, _opening_book, labels,
                   scheduled, launched>>
    /\ UNCHANGED <<bvars, evars, gvars, avars, hvars, svars>>

\* self._analyzer_done = True
AnalyzerDone ==
    /\ loader["analyzer"] = "done"
    /\ _analyzer_done' = TRUE
    /\ Step("analyzer", "after")
    /\ UNCHANGED <<_openings_done, _opening_book, _analyzer_eng, labels,
                   events, scheduled, launched>>
    /\ UNCHANGED <<bvars, evars, gvars, avars, hvars, svars>>

\* self.root.after(0, self._check_done), and _load_analyzer returns
AnalyzerCheck ==
    /\ loader["analyzer"] = "after"
    /\ root_after(check_done)
    /\ Step("analyzer", "returned")
    /\ UNCHANGED <<_openings_done, _analyzer_done, _opening_book,
                   _analyzer_eng, labels, scheduled, launched>>
    /\ UNCHANGED <<bvars, evars, gvars, avars, hvars, svars>>

\* mainloop runs the callback that is due first: a label is set
SetLabel ==
    /\ events # <<>> /\ Head(events).call = "label"
    /\ events' = Tail(events)
    /\ labels' = [labels EXCEPT ![Head(events).which] = Head(events).text]
    /\ UNCHANGED <<_openings_done, _analyzer_done, _opening_book,
                   _analyzer_eng, loader, scheduled, launched>>
    /\ UNCHANGED <<bvars, evars, gvars, avars, hvars, svars>>

\* mainloop runs _check_done, which schedules _launch_main if both flags are
\* set
CheckDone ==
    /\ events # <<>> /\ Head(events).call = "_check_done"
    /\ events' = Tail(events)
    /\ scheduled' = IF _openings_done /\ _analyzer_done
                    THEN scheduled + 1 ELSE scheduled
    /\ UNCHANGED <<_openings_done, _analyzer_done, _opening_book,
                   _analyzer_eng, labels, loader, launched>>
    /\ UNCHANGED <<bvars, evars, gvars, avars, hvars, svars>>

\* root.after(700, self._launch_main) comes due: the main window is built
LaunchMain ==
    /\ launched < scheduled
    /\ launched' = launched + 1
    /\ UNCHANGED <<_openings_done, _analyzer_done, _opening_book,
                   _analyzer_eng, labels, loader, events, scheduled>>
    /\ UNCHANGED <<bvars, evars, gvars, avars, hvars, svars>>

LoadingNext ==
    \/ LoadOpenings \/ OpeningsDone \/ OpeningsCheck
    \/ FindAnalyzer \/ StartAnalyzer \/ AnalyzerDone \/ AnalyzerCheck
    \/ SetLabel \/ CheckDone \/ LaunchMain

\* the loader threads and the event loop, from the construction of the
\* loading screen
LoadingSpec == Init /\ [][LoadingNext]_vars

\* C29: in every interleaving of the two loader threads and the event loop,
\* _launch_main is scheduled at most once, and only after both loaders have
\* set their flags; and when everything has run it has been scheduled once.
C29_LaunchScheduledOnce ==
    /\ scheduled <= 1
    /\ scheduled >= 1 => _openings_done /\ _analyzer_done
    /\ (\A t \in DOMAIN loader : loader[t] = "returned") /\ events = <<>>
          => scheduled = 1

\* both loaders had set their flags before the first _check_done ran: each
\* of the two _check_done callbacks scheduled _launch_main, and both ran
C29_Witness ==
    /\ scheduled = 2
    /\ launched = 2
    /\ events = <<>>

(***************************************************************************)
(* The process handle read twice                                           *)
(***************************************************************************)
\* get_best_move has read self.process and found a process, and is about to
\* read it again for poll()
polls == pc \in {"alive_poll", "loop_poll"}

\* C28: get_best_move and alive do not raise when stop() sets self.process
\* to None between their test of the handle and their poll of the process:
\* a get_best_move that ends there returns None.
C28_NoneWhenHandleCleared ==
    [][polls /\ pc' = "idle" => call'.raised = None /\ call'.ret = <<>>]_vars

\* stop() cleared the handle while get_best_move was between the test and
\* the poll in its loop, and the call ended with AttributeError
C28_Witness ==
    /\ call.op = "get_best_move"
    /\ call.raised = "AttributeError"
    /\ call.why = "poll"
    /\ process = None
    /\ stop_call.returned

(***************************************************************************)
(* The move list sent to the engines                                       *)
(***************************************************************************)
\* the move of a history entry promoted a pawn: its SAN names the new piece
promoted(entry) == \E k \in DOMAIN entry[2] : entry[2][k] = "="

\* the long-form text of a move: four characters, and a fifth, one of the
\* lower-case letters q r b n, exactly when the move promotes
canonical(uci, promotes) ==
    /\ Len(uci) = (IF promotes THEN 5 ELSE 4)
    /\ promotes => uci[5] \in {"q", "r", "b", "n"}

\* C30: after any sequence of successful apply_uci calls every entry of
\* uci_moves_list() is the canonical long-form text of the move applied:
\* four characters, or five with a lower-case promotion letter, which is
\* there whenever the move promoted a pawn, also when the caller left it out.
C30_MoveListCanonical ==
    \A i \in DOMAIN move_history :
       canonical(uci_moves_list(Self)[i], promoted(move_history[i]))

\* c7b8 was passed without a letter, the pawn became a queen, and the move
\* list holds the four characters that were passed
C30_Witness ==
    /\ move_history # <<>>
    /\ raised = None
    /\ \E entry \in {move_history[Len(move_history)]} :
          /\ promoted(entry)
          /\ uci_moves_list(Self)[Len(move_history)] = <<"c", "7", "b", "8">>
          /\ board[0][1] = "Q"

=============================================================================
